---- MODULE Spec2Model ----
(***************************************************************************)
(* Transfer-data pipeline of the dashboard: fee parsing, country           *)
(* bucketing, transfer enrichment, the aggregation matrices and their      *)
(* column percentages, row ordering, season sorting and filtering, and     *)
(* the team statistics.                                                    *)
(*                                                                         *)
(* Text is modelled as a sequence of one-character strings (the euro sign  *)
(* is the character "euro"); a pandas missing value is the tag "nan".      *)
(* A float is the exact decimal m * 10^x, kept normalised (m carries no    *)
(* trailing zero), so that equal values are equal records.                 *)
(***************************************************************************)
EXTENDS Integers, Sequences, FiniteSets, TLC

VARIABLES
    fee_value,          \* parse_fee: the argument
    fee_result,         \* parse_fee: the returned float, or NotRun
    cls_args,           \* classify_club_country: club_id, club_name and map
    cls_result,         \* classify_club_country: the returned bucket, or NotRun
    pc,                 \* build_dashboard: the stage reached
    clubs,              \* clubs.csv as loaded
    competitions,       \* competitions.csv as loaded
    transfers,          \* transfers.csv as loaded
    clubs_enriched,     \* result of preprocess_clubs
    club_country_map,   \* dict(zip(club_id, club_country))
    transfers_enriched, \* result of build_transfer_enriched
    pl_games,           \* games.csv as loaded
    pl_unreadable,      \* the tables whose file load_data cannot read
    pl_top_club_ids,    \* result of build_top_clubs in build_dashboard
    pl_error,           \* the exception that ended build_dashboard, or "none"
    mx_club_ids,        \* matrix builders: the requested club ids
    mx_transfers,       \* matrix builders: the enriched ledger they are given
    mx,                 \* the matrices built from them, or NotRun
    or_index,           \* ordered_rows: the row labels given
    or_extras,          \* ordered_rows: the labels to keep at the bottom
    or_result,          \* ordered_rows: the returned list, or NotRun
    ss_seasons,         \* sort_seasons_chronologically: the labels given
    ss_result,          \* sort_seasons_chronologically: the outcome, or NotRun
    flt_transfers,      \* filter_transfers_by_seasons: the table given
    flt_seasons,        \* filter_transfers_by_seasons: the selection given
    flt_result,         \* filter_transfers_by_seasons: the returned table, or NotRun
    st_games,           \* calculate_team_statistics: the games table
    st_transfers,       \* calculate_team_statistics: the enriched ledger
    st_selected,        \* calculate_team_statistics: selected_seasons
    st_result,          \* calculate_team_statistics: the outcome, or NotRun
    st_per_season,      \* calculate_per_season_statistics per club, or NotRun
    psd_club_ids,       \* build_per_season_data: the club ids
    psd_transfers,      \* build_per_season_data: the enriched ledger
    psd,                \* the season list and the matrices of each season, or NotRun
    top_games,          \* build_top_clubs: the games table
    top_clubs,          \* build_top_clubs: the club table
    top_n,              \* build_top_clubs: how many clubs to keep
    top_result,         \* build_top_clubs: the returned ids, or NotRun
    fr_heap,            \* the objects the operations are called on, by name
    fr_initial,         \* the values of these objects before the first call
    fr_call,            \* the last call: operation, arguments and result, or NotRun
    sc_value,           \* scale_select.value
    sc_plots            \* the layers and colour bars of the four heatmaps

NotRun == [run |-> FALSE]

(***************************************************************************)
(* Bounds                                                                  *)
(***************************************************************************)
MaxTokens == 3        \* a fee text is at most this many vocabulary tokens
MaxDigitTokens == 2   \* of which at most this many are digit groups
MaxClubs == 2         \* rows of the club table
MaxComps == 1         \* rows of the competition table
MaxTransfers == 2     \* rows of the transfer ledger
MaxLedger == 2        \* rows of the enriched ledger given to the matrix builders

(***************************************************************************)
(* Text helpers: what str.strip, str.lower, `in`, str.replace and          *)
(* str.endswith do on character sequences.                                 *)
(***************************************************************************)

LowerChar(c) ==
    CASE c = "M" -> "m" [] c = "K" -> "k" [] c = "E" -> "e" [] c = "U" -> "u"
      [] c = "R" -> "r" [] c = "L" -> "l" [] c = "F" -> "f" [] c = "C" -> "c"
      [] c = "W" -> "w" [] c = "N" -> "n" [] c = "S" -> "s"
      [] OTHER -> c

Lower(s) == [i \in 1..Len(s) |-> LowerChar(s[i])]

RECURSIVE LStrip(_)
LStrip(s) == IF s # <<>> /\ Head(s) = " " THEN LStrip(Tail(s)) ELSE s

RECURSIVE RStrip(_)
RStrip(s) ==
    IF s # <<>> /\ s[Len(s)] = " " THEN RStrip(SubSeq(s, 1, Len(s) - 1)) ELSE s

Strip(s) == RStrip(LStrip(s))

StartsWith(s, t) == Len(t) <= Len(s) /\ SubSeq(s, 1, Len(t)) = t

EndsWith(s, t) ==
    Len(t) <= Len(s) /\ SubSeq(s, Len(s) - Len(t) + 1, Len(s)) = t

Contains(s, t) ==
    \E i \in 1..(Len(s) - Len(t) + 1) : SubSeq(s, i, i + Len(t) - 1) = t

\* str.replace(t, ''): leftmost, non-overlapping occurrences, one pass
RECURSIVE Remove(_, _)
Remove(s, t) ==
    IF s = <<>> THEN <<>>
    ELSE IF StartsWith(s, t) THEN Remove(SubSeq(s, Len(t) + 1, Len(s)), t)
    ELSE <<Head(s)>> \o Remove(Tail(s), t)

DropLast(s) == SubSeq(s, 1, Len(s) - 1)

(***************************************************************************)
(* Floats as exact decimals                                                *)
(***************************************************************************)
RECURSIVE Norm(_, _)
Norm(m, x) ==
    IF m = 0 THEN [m |-> 0, x |-> 0]
    ELSE IF m % 10 = 0 THEN Norm(m \div 10, x + 1)
    ELSE [m |-> m, x |-> x]

Float(n) == Norm(n, 0)

Zero == Float(0)

\* f * 10^k
Times10(f, k) == Norm(f.m, f.x + k)

IsNonNegative(f) == f.m >= 0

IsPositive(f) == f.m > 0

Digits == {"0", "1", "2", "3", "4", "5", "6", "7", "8", "9"}

DigitValue(c) ==
    CASE c = "0" -> 0 [] c = "1" -> 1 [] c = "2" -> 2 [] c = "3" -> 3
      [] c = "4" -> 4 [] c = "5" -> 5 [] c = "6" -> 6 [] c = "7" -> 7
      [] c = "8" -> 8 [] c = "9" -> 9

RECURSIVE DigitsValue(_)
DigitsValue(s) ==
    IF s = <<>> THEN 0
    ELSE 10 * DigitsValue(DropLast(s)) + DigitValue(s[Len(s)])

\* float(text): surrounding whitespace is ignored; the text must be an
\* optional minus sign, then decimal digits with at most one point and at
\* least one digit.  [ok, val]
ParseFloat(text) ==
    LET t == Strip(text)
        negative == t # <<>> /\ Head(t) = "-"
        s == IF negative THEN Tail(t) ELSE t
        points == {i \in 1..Len(s) : s[i] = "."}
        digs == SelectSeq(s, LAMBDA c : c # ".")
        wellFormed ==
            /\ \A i \in 1..Len(s) : s[i] \in Digits \cup {"."}
            /\ Cardinality(points) <= 1
            /\ digs # <<>>
        decimals == IF points = {} THEN 0
                    ELSE Len(s) - (CHOOSE i \in points : TRUE)
        magnitude == DigitsValue(digs)
    IN  IF wellFormed
        THEN [ok |-> TRUE,
              val |-> Norm(IF negative THEN 0 - magnitude ELSE magnitude,
                           0 - decimals)]
        ELSE [ok |-> FALSE, val |-> Zero]

(***************************************************************************)
(* parse_fee                                                               *)
(***************************************************************************)
\* the three shapes of a transfer_fee cell: missing, a number, a text
Missing == [kind |-> "nan", num |-> 0, str |-> <<>>]
Number(n) == [kind |-> "num", num |-> n, str |-> <<>>]
Text(s) == [kind |-> "str", num |-> 0, str |-> s]

non_cash_markers == {
    <<"f", "r", "e", "e">>,
    <<"l", "o", "a", "n">>,
    <<"e", "n", "d", " ", "o", "f", " ", "l", "o", "a", "n">>,
    <<"?", "-", "o", "p", "t", "i", "o", "n">>,
    <<"o", "p", "t", "i", "o", "n", " ", "t", "o", " ", "b", "u", "y">>,
    <<"s", "w", "a", "p">>,
    <<"?">>,
    <<"-">>
}

\* mutant: the bare hyphen is not among the markers
HasWordMarker(lower) ==
    \E m \in non_cash_markers \ {<<"-">>, <<"?", "-", "o", "p", "t", "i", "o", "n">>} :
        Contains(lower, m)

HasNonCashMarker(lower) == \E m \in non_cash_markers : Contains(lower, m)

\* the currency tokens and the thousands separator are removed, in this order
StripCurrency(lower) ==
    LET a == Remove(lower, <<"euro">>)
        b == Remove(a, <<"e", "u", "r">>)
        c == Remove(b, <<"f", "e", "e">>)
    IN  Strip(Remove(c, <<",">>))

\* mutant: a trailing k read as millions
MultiplierExpAllMillions(rem) ==
    IF EndsWith(rem, <<"m">>) \/ EndsWith(rem, <<"k">>) THEN 6 ELSE 0

\* the power of ten of the multiplier: 1_000_000, 1_000 or 1.0
MultiplierExp(rem) ==
    IF EndsWith(rem, <<"m">>) THEN 6
    ELSE IF EndsWith(rem, <<"k">>) THEN 3
    ELSE 0

NumberPart(rem) ==
    IF EndsWith(rem, <<"m">>) \/ EndsWith(rem, <<"k">>) THEN DropLast(rem)
    ELSE rem

parse_fee(value) ==
    IF value.kind = "nan" THEN Zero
    ELSE IF value.kind = "num" THEN Float(value.num)
    ELSE LET s == Strip(value.str)
             lower == Lower(s)
             rem == StripCurrency(lower)
             parsed == ParseFloat(NumberPart(rem))
         IN  IF s = <<>> THEN Zero
             ELSE IF HasNonCashMarker(lower) THEN Zero
             ELSE IF parsed.ok THEN Times10(parsed.val, MultiplierExp(rem))
             ELSE Zero

(***************************************************************************)
(* Inputs of parse_fee                                                     *)
(***************************************************************************)
DigitTokens == {<<"1", "0">>, <<"5", "0", "0">>, <<"3", "5">>, <<".", "5">>}

FeeTokens == DigitTokens \cup {
    <<"m">>, <<"k">>, <<"M">>, <<"euro">>, <<"e", "u", "r">>,
    <<"f", "e", "e">>, <<",">>, <<" ">>,
    <<"f", "r", "e", "e">>, <<"L", "o", "a", "n">>, <<"s", "w", "a", "p">>,
    <<"o", "p", "t", "i", "o", "n", " ", "t", "o", " ", "b", "u", "y">>,
    <<"?">>, <<"-">>, <<"g", "a", "r", "b", "a", "g", "e">>
}

RECURSIVE Concat(_)
Concat(toks) == IF toks = <<>> THEN <<>> ELSE Head(toks) \o Concat(Tail(toks))

TokenLists ==
    UNION {[1..n -> FeeTokens] : n \in 0..MaxTokens}

FeeTexts ==
    {Concat(toks) : toks \in
        {t \in TokenLists :
            Cardinality({i \in DOMAIN t : t[i] \in DigitTokens}) <= MaxDigitTokens}}

FeeNumbers == {0 - 2, 0, 3, 1500}

FeeValues == {Missing} \cup {Number(n) : n \in FeeNumbers} \cup {Text(s) : s \in FeeTexts}

(***************************************************************************)
(* parse_fee as a state machine: one call on one argument                  *)
(***************************************************************************)
varsFee == <<fee_value, fee_result>>

varsClassify == <<cls_args, cls_result>>

varsPipeline == <<pc, clubs, competitions, transfers, clubs_enriched,
                  club_country_map, transfers_enriched, pl_games,
                  pl_unreadable, pl_top_club_ids, pl_error>>

varsMatrix == <<mx_club_ids, mx_transfers, mx>>

varsRows == <<or_index, or_extras, or_result>>

varsSeasons == <<ss_seasons, ss_result>>

varsFilter == <<flt_transfers, flt_seasons, flt_result>>

varsStats == <<st_games, st_transfers, st_selected, st_result,
               st_per_season>>

varsPerSeason == <<psd_club_ids, psd_transfers, psd>>

varsTop == <<top_games, top_clubs, top_n, top_result>>

varsFrame == <<fr_heap, fr_initial, fr_call>>

varsScale == <<sc_value, sc_plots>>

vars == <<varsFee, varsClassify, varsPipeline, varsMatrix, varsRows,
          varsSeasons, varsFilter, varsStats,
          varsPerSeason,
          varsTop,
          varsFrame,
          varsScale>>

\* the parts of the state a specification does not exercise
FeeIdle == fee_value = Missing /\ fee_result = NotRun

ClassifyIdle == cls_args = <<>> /\ cls_result = NotRun

PipelineIdle ==
    /\ pc = "idle"
    /\ clubs = <<>> /\ competitions = <<>> /\ transfers = <<>>
    /\ clubs_enriched = <<>> /\ club_country_map = <<>>
    /\ transfers_enriched = <<>>
    /\ pl_games = <<>> /\ pl_unreadable = {} /\ pl_top_club_ids = <<>>
    /\ pl_error = "none"

MatrixIdle == mx_club_ids = <<>> /\ mx_transfers = <<>> /\ mx = NotRun

RowsIdle == or_index = <<>> /\ or_extras = <<>> /\ or_result = NotRun

SeasonsIdle == ss_seasons = <<>> /\ ss_result = NotRun

FilterIdle ==
    flt_transfers = <<>> /\ flt_seasons = <<>> /\ flt_result = NotRun

StatsIdle ==
    /\ st_games = <<>> /\ st_transfers = <<>> /\ st_selected = NotRun
    /\ st_result = NotRun /\ st_per_season = NotRun

PerSeasonIdle ==
    psd_club_ids = <<>> /\ psd_transfers = <<>> /\ psd = NotRun

TopIdle ==
    top_games = <<>> /\ top_clubs = <<>> /\ top_n = 0 /\ top_result = NotRun

FrameIdle ==
    fr_heap = <<>> /\ fr_initial = <<>> /\ fr_call = NotRun

ScaleIdle ==
    sc_value = "" /\ sc_plots = <<>>

InitFee ==
    /\ fee_value \in FeeValues
    /\ fee_result = NotRun
    /\ ClassifyIdle /\ PipelineIdle /\ MatrixIdle
    /\ RowsIdle /\ SeasonsIdle /\ FilterIdle /\ StatsIdle
    /\ PerSeasonIdle
    /\ TopIdle
    /\ FrameIdle
    /\ ScaleIdle

ParseFee ==
    /\ fee_result = NotRun
    /\ fee_result' = [run |-> TRUE, val |-> parse_fee(fee_value)]
    /\ UNCHANGED <<fee_value, varsClassify, varsPipeline, varsMatrix,
                   varsRows, varsSeasons, varsFilter, varsStats,
                   varsPerSeason,
                   varsTop,
                   varsFrame,
                   varsScale>>

NextFee == ParseFee

SpecFee == InitFee /\ [][NextFee]_vars

(***************************************************************************)
(* classify_club_country                                                   *)
(***************************************************************************)
NullId == 0          \* a missing club_id / player_id (NaN)

NullCountry == "NaN" \* a missing country_name

NoName == [isstr |-> FALSE, chars |-> <<>>]   \* a club name that is no str

Name(s) == [isstr |-> TRUE, chars |-> s]

\* mutant: the name heuristics are tried before the id lookup
classify_name_first(club_id, club_name, map) ==
    LET name == Lower(Strip(club_name.chars))
    IN  IF club_name.isstr
           /\ (Contains(name, <<"w", "i", "t", "h", "o", "u", "t", " ", "c", "l", "u", "b">>)
               \/ Contains(name, <<"n", "o", " ", "c", "l", "u", "b">>))
        THEN "Without Club"
        ELSE IF club_name.isstr /\ Contains(name, <<"r", "e", "t", "i", "r", "e", "d">>)
        THEN "Retired"
        ELSE IF club_id # NullId /\ club_id \in DOMAIN map THEN map[club_id]
        ELSE "Unknown"

classify_club_country(club_id, club_name, map) ==
    IF club_id # NullId /\ club_id \in DOMAIN map THEN map[club_id]
    ELSE LET name == Lower(Strip(club_name.chars))
         IN  IF club_name.isstr
                /\ (Contains(name, <<"w", "i", "t", "h", "o", "u", "t", " ", "c", "l", "u", "b">>)
                    \/ Contains(name, <<"n", "o", " ", "c", "l", "u", "b">>))
             THEN "Without Club"
             ELSE IF club_name.isstr
                     /\ Contains(name, <<"r", "e", "t", "i", "r", "e", "d">>)
             THEN "Retired"
             ELSE "Unknown"

ClubIds == {1, 2, 9, NullId}

ClubNames == {
    NoName,
    Name(<<"R", "e", "a", "l", " ", "M", "a", "d", "r", "i", "d">>),
    Name(<<"W", "i", "t", "h", "o", "u", "t", " ", "C", "l", "u", "b">>),
    Name(<<" ", "N", "O", " ", "C", "L", "U", "B", " ">>),
    Name(<<"C", "a", "s", "i", "n", "o", " ", "C", "l", "u", "b">>),
    Name(<<"R", "e", "t", "i", "r", "e", "d">>),
    Name(<<"F", "C", " ", "R", "e", "t", "i", "r", "e", "d">>),
    Name(<<"r", "e", "t", "i", "r", "e", "d", " ", "-", " ", "n", "o", " ", "c", "l", "u", "b">>)
}

Countries == {"England", "Spain", "Unknown"}

CountryMaps == UNION {[keys -> Countries] : keys \in SUBSET {1, 2, NullId}}

InitClassify ==
    /\ cls_args \in {[club_id |-> i, club_name |-> n, map |-> m] :
                        i \in ClubIds, n \in ClubNames, m \in CountryMaps}
    /\ cls_result = NotRun
    /\ FeeIdle /\ PipelineIdle /\ MatrixIdle
    /\ RowsIdle /\ SeasonsIdle /\ FilterIdle /\ StatsIdle
    /\ PerSeasonIdle
    /\ TopIdle
    /\ FrameIdle
    /\ ScaleIdle

Classify ==
    /\ cls_result = NotRun
    /\ cls_result' = [run |-> TRUE,
                       val |-> classify_club_country(cls_args.club_id,
                                                     cls_args.club_name,
                                                     cls_args.map)]
    /\ UNCHANGED <<cls_args, varsFee, varsPipeline, varsMatrix,
                   varsRows, varsSeasons, varsFilter, varsStats,
                   varsPerSeason,
                   varsTop,
                   varsFrame,
                   varsScale>>

NextClassify == Classify

SpecClassify == InitClassify /\ [][NextClassify]_vars

(***************************************************************************)
(* build_dashboard: load, preprocess_clubs, the lookup maps and            *)
(* build_transfer_enriched                                                 *)
(***************************************************************************)
SeqsUpTo(S, n) == UNION {[1..k -> S] : k \in 0..n}

Range(f) == {f[i] : i \in DOMAIN f}

NullComp == "NaN"    \* a missing competition_id

ClubRows == {
    [club_id |-> 1, name |-> "Real Madrid", domestic_competition_id |-> "ES1"],
    [club_id |-> 2, name |-> "FC Retired", domestic_competition_id |-> "GB1"],
    [club_id |-> 2, name |-> "Retired FC", domestic_competition_id |-> "XX9"]
}

CompetitionRows == {
    [competition_id |-> "GB1", country_name |-> "England"],
    [competition_id |-> "ES1", country_name |-> NullCountry]
}

RawTransfer(fid, fname, tid, tname, pid, fee, season) ==
    [from_club_id |-> fid, from_club_name |-> fname,
     to_club_id |-> tid, to_club_name |-> tname,
     player_id |-> pid, transfer_fee |-> fee, transfer_season |-> season]

RealMadrid == Name(<<"R", "e", "a", "l", " ", "M", "a", "d", "r", "i", "d">>)

FCRetired == Name(<<"F", "C", " ", "R", "e", "t", "i", "r", "e", "d">>)

TransferRows == {
    RawTransfer(2, FCRetired, 1, RealMadrid, 7, Text(<<"1", "0", "m">>), "10/11"),
    RawTransfer(9, Name(<<"C", "a", "s", "i", "n", "o", " ", "C", "l", "u", "b">>),
                2, FCRetired, 8, Number(0 - 2), "10/11"),
    RawTransfer(NullId, Name(<<"W", "i", "t", "h", "o", "u", "t", " ", "C", "l", "u", "b">>),
                1, RealMadrid, 7, Text(<<"f", "r", "e", "e">>), "99/00"),
    RawTransfer(1, RealMadrid, NullId, Name(<<"R", "e", "t", "i", "r", "e", "d">>),
                NullId, Missing, "99/00"),
    RawTransfer(9, NoName, 9, RealMadrid, 8,
                Text(<<"g", "a", "r", "b", "a", "g", "e">>), "10/11"),
    RawTransfer(1, RealMadrid, 2, FCRetired, 8, Number(1500), "99/00")
}

\* DataFrame.drop_duplicates: the first of equal rows is kept
RECURSIVE drop_duplicates(_)
drop_duplicates(rows) ==
    IF rows = <<>> THEN <<>>
    ELSE LET front == DropLast(rows)
             last == rows[Len(rows)]
         IN  IF last \in Range(front) THEN drop_duplicates(front)
             ELSE Append(drop_duplicates(front), last)

\* the rows a left merge yields for one club: one per matching competition,
\* in the competition table's order, or one with missing values
MergeClub(club, comp_country) ==
    LET hits == SelectSeq(comp_country,
                          LAMBDA c : c.competition_id = club.domestic_competition_id)
        joined(c) == [club_id |-> club.club_id, name |-> club.name,
                      domestic_competition_id |-> club.domestic_competition_id,
                      competition_id |-> c.competition_id,
                      country_name |-> c.country_name]
    IN  IF hits = <<>>
        THEN <<joined([competition_id |-> NullComp, country_name |-> NullCountry])>>
        ELSE [i \in 1..Len(hits) |-> joined(hits[i])]

RECURSIVE merge_left(_, _)
merge_left(left, comp_country) ==
    IF left = <<>> THEN <<>>
    ELSE MergeClub(Head(left), comp_country) \o merge_left(Tail(left), comp_country)

ClubEnriched(row, country) ==
    [club_id |-> row.club_id, name |-> row.name,
     domestic_competition_id |-> row.domestic_competition_id,
     competition_id |-> row.competition_id,
     club_country |-> country]

\* mutant: the missing countries are not filled with 'Unknown'
preprocess_clubs_nofill(cl, comps) ==
    LET merged == merge_left(cl, drop_duplicates(comps))
    IN  [i \in 1..Len(merged) |-> ClubEnriched(merged[i], merged[i].country_name)]

preprocess_clubs(cl, comps) ==
    LET comp_country == drop_duplicates(comps)
        merged == merge_left(cl, comp_country)
        fillna(v) == IF v = NullCountry THEN "Unknown" ELSE v
    IN  [i \in 1..Len(merged) |->
            ClubEnriched(merged[i], fillna(merged[i].country_name))]

\* dict(zip(keys, values)): a later pair replaces an earlier one of its key
DictZip(rows, value_column) ==
    [k \in {rows[i].club_id : i \in DOMAIN rows} |->
        LET last == CHOOSE i \in DOMAIN rows :
                        /\ rows[i].club_id = k
                        /\ \A j \in DOMAIN rows : rows[j].club_id = k => j <= i
        IN  IF value_column = "club_country" THEN rows[last].club_country
            ELSE rows[last].name]

Enriched(r, fee, fromc, toc) ==
    [from_club_id |-> r.from_club_id, from_club_name |-> r.from_club_name,
     to_club_id |-> r.to_club_id, to_club_name |-> r.to_club_name,
     player_id |-> r.player_id, transfer_fee |-> r.transfer_fee,
     transfer_season |-> r.transfer_season,
     fee_eur |-> fee, from_country |-> fromc, to_country |-> toc]

\* mutant: both buckets are taken from the selling side
build_transfer_enriched_one_side(tf, map) ==
    [i \in 1..Len(tf) |->
        Enriched(tf[i], parse_fee(tf[i].transfer_fee),
                 classify_club_country(tf[i].from_club_id, tf[i].from_club_name, map),
                 classify_club_country(tf[i].from_club_id, tf[i].from_club_name, map))]

build_transfer_enriched(tf, map) ==
    [i \in 1..Len(tf) |->
        Enriched(tf[i], parse_fee(tf[i].transfer_fee),
                 classify_club_country(tf[i].from_club_id, tf[i].from_club_name, map),
                 classify_club_country(tf[i].to_club_id, tf[i].to_club_name, map))]

(***************************************************************************)
(* ordered_rows and the four matrix builders                               *)
(*                                                                         *)
(* A matrix is [index, columns, cell]: the row labels, the column ids and  *)
(* the value of every (row, column) pair.                                  *)
(***************************************************************************)
\* the country buckets of the model in the order sorted() gives strings
AlphaOrder == <<"England", "France", "Retired", "Spain", "Unknown", "Without Club">>

\* sorted(list) of bucket labels
RECURSIVE SortedFrom(_, _)
SortedFrom(labels, k) ==
    IF k > Len(AlphaOrder) THEN <<>>
    ELSE SelectSeq(labels, LAMBDA v : v = AlphaOrder[k]) \o SortedFrom(labels, k + 1)

sorted(labels) == SortedFrom(labels, 1)

\* mutant: the bottom rows are sorted like the others
ordered_rows_sorted_tail(index, extras) ==
    LET core == sorted(SelectSeq(index, LAMBDA v : v \notin Range(extras)))
        tail == sorted(SelectSeq(extras, LAMBDA v : v \in Range(index)))
    IN  core \o tail

\* mutant: 'Unknown' is left out of the alphabetical part
ordered_rows_without_unknown(index, extras) ==
    LET core == sorted(SelectSeq(index,
                    LAMBDA v : v \notin Range(extras) /\ v # "Unknown"))
        tail == SelectSeq(extras, LAMBDA v : v \in Range(index))
    IN  core \o tail

ordered_rows(index, extras) ==
    LET core == sorted(SelectSeq(index, LAMBDA v : v \notin Range(extras)))
        tail == SelectSeq(extras, LAMBDA v : v \in Range(index))
    IN  core \o tail

DefaultExtras == <<"Without Club", "Retired">>

RECURSIVE Pow10(_)
Pow10(k) == IF k = 0 THEN 1 ELSE 10 * Pow10(k - 1)

\* a + b on exact decimals
Add(a, b) ==
    LET x == IF a.x < b.x THEN a.x ELSE b.x
    IN  Norm(a.m * Pow10(a.x - x) + b.m * Pow10(b.x - x), x)

\* Series.sum() of the fee_eur of a group
RECURSIVE SumFee(_)
SumFee(rows) ==
    IF rows = <<>> THEN Zero ELSE Add(Head(rows).fee_eur, SumFee(Tail(rows)))

\* Series.count() of the player_id of a group: the values that are not missing
CountPlayers(rows) == Len(SelectSeq(rows, LAMBDA r : r.player_id # NullId))

RECURSIVE SortedIds(_)
SortedIds(S) ==
    IF S = {} THEN <<>>
    ELSE LET least == CHOOSE a \in S : \A b \in S : a <= b
         IN  <<least>> \o SortedIds(S \ {least})

RECURSIVE LabelList(_)
LabelList(S) ==
    IF S = {} THEN <<>>
    ELSE LET v == CHOOSE a \in S : TRUE IN <<v>> \o LabelList(S \ {v})

\* pd.DataFrame(index=[], columns=top_club_ids)
EmptyMatrix(top_club_ids) ==
    [index |-> <<>>, columns |-> top_club_ids, cell |-> [rc \in {} |-> 0]]

\* the grouping keys and the aggregated column of a builder
RowKey(t, by) == IF by = "from_country" THEN t.from_country ELSE t.to_country

ColKey(t, by) == IF by = "to_club_id" THEN t.to_club_id ELSE t.from_club_id

Aggregate(rows, column) ==
    IF column = "fee_eur" THEN SumFee(rows) ELSE CountPlayers(rows)

\* tf.groupby([row key, column key])[...].agg().unstack(fill_value=fill)
Pivot(tf, row_by, col_by, column, fill) ==
    LET rows == {RowKey(tf[i], row_by) : i \in DOMAIN tf}
        cols == {ColKey(tf[i], col_by) : i \in DOMAIN tf}
        group(r, c) ==
            SelectSeq(tf, LAMBDA t : RowKey(t, row_by) = r /\ ColKey(t, col_by) = c)
    IN  [index |-> sorted(LabelList(rows)),
         columns |-> SortedIds(cols),
         cell |-> [rc \in rows \X cols |->
                    IF group(rc[1], rc[2]) = <<>> THEN fill
                    ELSE Aggregate(group(rc[1], rc[2]), column)]]

\* mat.reindex(columns=ids, fill_value=fill)
ReindexColumns(mat, ids, fill) ==
    [index |-> mat.index,
     columns |-> ids,
     cell |-> [rc \in Range(mat.index) \X Range(ids) |->
                IF rc[2] \in Range(mat.columns) THEN mat.cell[rc] ELSE fill]]

\* mat.reindex(index=labels): a label the matrix lacks gets missing values
ReindexRows(mat, labels) ==
    [index |-> labels,
     columns |-> mat.columns,
     cell |-> [rc \in Range(labels) \X Range(mat.columns) |->
                IF rc[1] \in Range(mat.index) THEN mat.cell[rc]
                ELSE [nan |-> TRUE]]]

\* mutant: the columns stay those of the clubs that have a transfer
money_in_matrix_no_reindex(top_club_ids, te) ==
    LET tf0 == SelectSeq(te, LAMBDA t : t.to_club_id \in Range(top_club_ids))
        tf1 == SelectSeq(tf0, LAMBDA t : IsPositive(t.fee_eur))
        tf == SelectSeq(tf1, LAMBDA t : t.from_country \notin {"Without Club", "Retired"})
        mat == Pivot(tf, "from_country", "to_club_id", "fee_eur", Zero)
    IN  IF tf = <<>> THEN EmptyMatrix(top_club_ids)
        ELSE ReindexRows(mat, ordered_rows(mat.index, DefaultExtras))

\* mutant: the fee filter is missing
money_in_matrix_any_fee(top_club_ids, te) ==
    LET tf0 == SelectSeq(te, LAMBDA t : t.to_club_id \in Range(top_club_ids))
        tf == SelectSeq(tf0, LAMBDA t : t.from_country \notin {"Without Club", "Retired"})
        mat0 == Pivot(tf, "from_country", "to_club_id", "fee_eur", Zero)
        mat1 == ReindexColumns(mat0, top_club_ids, Zero)
    IN  IF tf = <<>> THEN EmptyMatrix(top_club_ids)
        ELSE ReindexRows(mat1, ordered_rows(mat1.index, DefaultExtras))

money_in_matrix(top_club_ids, te) ==
    LET tf0 == SelectSeq(te, LAMBDA t : t.to_club_id \in Range(top_club_ids))
        tf1 == SelectSeq(tf0, LAMBDA t : IsPositive(t.fee_eur))
        tf == SelectSeq(tf1, LAMBDA t : t.from_country \notin {"Without Club", "Retired"})
        mat0 == Pivot(tf, "from_country", "to_club_id", "fee_eur", Zero)
        mat1 == ReindexColumns(mat0, top_club_ids, Zero)
    IN  IF tf = <<>> THEN EmptyMatrix(top_club_ids)
        ELSE ReindexRows(mat1, ordered_rows(mat1.index, DefaultExtras))

\* mutant: the excluded buckets are looked up on the selling side
money_out_matrix_from_side(top_club_ids, te) ==
    LET tf0 == SelectSeq(te, LAMBDA t : t.from_club_id \in Range(top_club_ids))
        tf1 == SelectSeq(tf0, LAMBDA t : IsPositive(t.fee_eur))
        tf == SelectSeq(tf1, LAMBDA t : t.from_country \notin {"Without Club", "Retired"})
        mat0 == Pivot(tf, "to_country", "from_club_id", "fee_eur", Zero)
        mat1 == ReindexColumns(mat0, top_club_ids, Zero)
    IN  IF tf = <<>> THEN EmptyMatrix(top_club_ids)
        ELSE ReindexRows(mat1, ordered_rows(mat1.index, DefaultExtras))

money_out_matrix(top_club_ids, te) ==
    LET tf0 == SelectSeq(te, LAMBDA t : t.from_club_id \in Range(top_club_ids))
        tf1 == SelectSeq(tf0, LAMBDA t : IsPositive(t.fee_eur))
        tf == SelectSeq(tf1, LAMBDA t : t.to_country \notin {"Without Club", "Retired"})
        mat0 == Pivot(tf, "to_country", "from_club_id", "fee_eur", Zero)
        mat1 == ReindexColumns(mat0, top_club_ids, Zero)
    IN  IF tf = <<>> THEN EmptyMatrix(top_club_ids)
        ELSE ReindexRows(mat1, ordered_rows(mat1.index, DefaultExtras))

players_in_matrix(top_club_ids, te) ==
    LET tf == SelectSeq(te, LAMBDA t : t.to_club_id \in Range(top_club_ids))
        mat0 == Pivot(tf, "from_country", "to_club_id", "player_id", 0)
        mat1 == ReindexColumns(mat0, top_club_ids, 0)
    IN  IF tf = <<>> THEN EmptyMatrix(top_club_ids)
        ELSE ReindexRows(mat1, ordered_rows(mat1.index, <<"Without Club">>))

players_out_matrix(top_club_ids, te) ==
    LET tf == SelectSeq(te, LAMBDA t : t.from_club_id \in Range(top_club_ids))
        mat0 == Pivot(tf, "to_country", "from_club_id", "player_id", 0)
        mat1 == ReindexColumns(mat0, top_club_ids, 0)
    IN  IF tf = <<>> THEN EmptyMatrix(top_club_ids)
        ELSE ReindexRows(mat1, ordered_rows(mat1.index, <<"Without Club", "Retired">>))

(***************************************************************************)
(* column_percentage_matrix                                                *)
(*                                                                         *)
(* A quotient of two floats is kept as the exact fraction n / d in lowest  *)
(* terms with d > 0.  The frame given to column_percentage_matrix carries  *)
(* its dtype: "int64" cells are integers, "float64" cells exact decimals.  *)
(***************************************************************************)
RECURSIVE GCD(_, _)
GCD(a, b) == IF b = 0 THEN a ELSE GCD(b, a % b)

Abs(n) == IF n < 0 THEN 0 - n ELSE n

Rat(n, d) ==
    LET g == GCD(Abs(n), Abs(d))
        sgn == IF d < 0 THEN 0 - 1 ELSE 1
    IN  [n |-> sgn * (n \div g), d |-> sgn * (d \div g)]

RatZero == Rat(0, 1)

\* mutant: the quotient is not scaled to percent
FractionOf(a, b) ==
    LET x == IF a.x < b.x THEN a.x ELSE b.x
    IN  Rat(a.m * Pow10(a.x - x), b.m * Pow10(b.x - x))

\* a / b * 100.0 on exact decimals, b # 0
PercentOf(a, b) ==
    LET x == IF a.x < b.x THEN a.x ELSE b.x
    IN  Rat(a.m * Pow10(a.x - x) * 100, b.m * Pow10(b.x - x))

Frame(mat, dtype) ==
    [index |-> mat.index, columns |-> mat.columns, cell |-> mat.cell,
     dtype |-> dtype]

\* matrix.astype(float)
astype_float(matrix) ==
    [matrix EXCEPT
        !.cell = [rc \in DOMAIN matrix.cell |->
                    IF matrix.dtype = "int64" THEN Float(matrix.cell[rc])
                    ELSE matrix.cell[rc]],
        !.dtype = "float64"]

\* pct.sum(axis=0)[col]
RECURSIVE SumColumn(_, _, _)
SumColumn(pct, rows, col) ==
    IF rows = <<>> THEN Zero
    ELSE Add(pct.cell[<<Head(rows), col>>], SumColumn(pct, Tail(rows), col))

column_percentage_matrix(matrix) ==
    IF matrix.index = <<>> \/ matrix.columns = <<>> THEN matrix
    ELSE
        LET pct == astype_float(matrix)
            col_sums == [col \in Range(pct.columns) |->
                            SumColumn(pct, pct.index, col)]
        IN  [pct EXCEPT
                !.cell = [rc \in DOMAIN pct.cell |->
                            LET total == col_sums[rc[2]]
                            IN  IF IsPositive(total)
                                THEN PercentOf(pct.cell[rc], total)
                                ELSE RatZero]]

(***************************************************************************)
(* Inputs of the matrix builders: an enriched ledger and a list of ids     *)
(***************************************************************************)
\* a club id with the bucket classify_club_country gives it
Side(id, country) == [club_id |-> id, country |-> country]

Moves == {
    <<Side(2, "France"), Side(1, "Spain")>>,
    <<Side(9, "Unknown"), Side(1, "Spain")>>,
    <<Side(NullId, "Without Club"), Side(1, "Spain")>>,
    <<Side(NullId, "Retired"), Side(1, "Spain")>>,
    <<Side(1, "Spain"), Side(2, "France")>>,
    <<Side(1, "Spain"), Side(NullId, "Retired")>>,
    <<Side(1, "Spain"), Side(NullId, "Without Club")>>,
    <<Side(2, "France"), Side(9, "Unknown")>>
}

\* fee_eur and player_id of a ledger row
Payloads == {
    [fee_eur |-> Float(3), player_id |-> 7],
    [fee_eur |-> Float(1500), player_id |-> 7],
    [fee_eur |-> Zero, player_id |-> 7],
    [fee_eur |-> Float(0 - 2), player_id |-> 7],
    [fee_eur |-> Zero, player_id |-> NullId]
}

LedgerRows ==
    {[from_club_id |-> mv[1].club_id, from_country |-> mv[1].country,
      to_club_id |-> mv[2].club_id, to_country |-> mv[2].country,
      fee_eur |-> p.fee_eur, player_id |-> p.player_id] :
        mv \in Moves, p \in Payloads}

ClubIdLists == {<<1, 2>>, <<2, 1>>, <<1, 5>>, <<>>}

InitMatrix ==
    /\ mx_club_ids \in ClubIdLists
    /\ mx_transfers \in SeqsUpTo(LedgerRows, MaxLedger)
    /\ mx = NotRun
    /\ FeeIdle /\ ClassifyIdle /\ PipelineIdle
    /\ RowsIdle /\ SeasonsIdle /\ FilterIdle /\ StatsIdle
    /\ PerSeasonIdle
    /\ TopIdle
    /\ FrameIdle
    /\ ScaleIdle

BuildMatrices ==
    /\ mx = NotRun
    /\ LET mat_money_in == money_in_matrix(mx_club_ids, mx_transfers)
           mat_money_out == money_out_matrix(mx_club_ids, mx_transfers)
           mat_players_in == players_in_matrix(mx_club_ids, mx_transfers)
           mat_players_out == players_out_matrix(mx_club_ids, mx_transfers)
       IN  mx' = [run |-> TRUE,
                  money_in |-> mat_money_in,
                  money_out |-> mat_money_out,
                  money_in_pct |->
                      column_percentage_matrix(Frame(mat_money_in, "float64")),
                  money_out_pct |->
                      column_percentage_matrix(Frame(mat_money_out, "float64")),
                  players_in |-> mat_players_in,
                  players_out |-> mat_players_out,
                  players_in_pct |->
                      column_percentage_matrix(Frame(mat_players_in, "int64")),
                  players_out_pct |->
                      column_percentage_matrix(Frame(mat_players_out, "int64"))]
    /\ UNCHANGED <<mx_club_ids, mx_transfers, varsFee, varsClassify, varsPipeline,
                   varsRows, varsSeasons, varsFilter, varsStats,
                   varsPerSeason,
                   varsTop,
                   varsFrame,
                   varsScale>>

NextMatrix == BuildMatrices

SpecMatrix == InitMatrix /\ [][NextMatrix]_vars

(***************************************************************************)
(* ordered_rows as a state machine: one call on a list of labels           *)
(***************************************************************************)
MaxLabels == 4        \* labels in the list given to ordered_rows

LabelLists == SeqsUpTo(Range(AlphaOrder), MaxLabels)

ExtrasLists == {
    DefaultExtras,
    <<"Without Club">>,
    <<"Retired", "Without Club">>,
    <<"Without Club", "Retired", "Unknown">>,
    <<>>
}

InitRows ==
    /\ or_index \in LabelLists
    /\ or_extras \in ExtrasLists
    /\ or_result = NotRun
    /\ FeeIdle /\ ClassifyIdle /\ PipelineIdle /\ MatrixIdle
    /\ SeasonsIdle /\ FilterIdle /\ StatsIdle
    /\ PerSeasonIdle
    /\ TopIdle
    /\ FrameIdle
    /\ ScaleIdle

OrderedRows ==
    /\ or_result = NotRun
    /\ or_result' = [run |-> TRUE, val |-> ordered_rows(or_index, or_extras)]
    /\ UNCHANGED <<or_index, or_extras, varsFee, varsClassify, varsPipeline,
                   varsMatrix, varsSeasons, varsFilter, varsStats,
                   varsPerSeason,
                   varsTop,
                   varsFrame,
                   varsScale>>

NextRows == OrderedRows

SpecRows == InitRows /\ [][NextRows]_vars

(***************************************************************************)
(* sort_seasons_chronologically                                            *)
(*                                                                         *)
(* A season label is Text(characters), or Missing for a value that is not  *)
(* a string.  A call either returns a value or raises.                     *)
(***************************************************************************)
Returned(v) == [raised |-> FALSE, val |-> v]

Raised == [raised |-> TRUE, val |-> <<>>]

\* str.split('/')[0]: the text before the first '/', or the whole text
RECURSIVE FirstField(_)
FirstField(s) ==
    IF s = <<>> \/ Head(s) = "/" THEN <<>>
    ELSE <<Head(s)>> \o FirstField(Tail(s))

\* int(text): surrounding whitespace is ignored; the text must be an optional
\* sign followed by at least one decimal digit.  [ok, val]
ParseInt(text) ==
    LET t == Strip(text)
        signed == t # <<>> /\ Head(t) \in {"-", "+"}
        s == IF signed THEN Tail(t) ELSE t
        wellFormed == s # <<>> /\ \A i \in 1..Len(s) : s[i] \in Digits
        magnitude == DigitsValue(s)
    IN  IF ~wellFormed THEN [ok |-> FALSE, val |-> 0]
        ELSE [ok |-> TRUE,
              val |-> IF signed /\ Head(t) = "-" THEN 0 - magnitude
                      ELSE magnitude]

\* mutant: the year 90 is read as 2090
season_sort_key_after_90(season) ==
    IF season.kind # "str" THEN Raised
    ELSE LET year == ParseInt(FirstField(season.str))
         IN  IF ~year.ok THEN Returned(9999)
             ELSE IF year.val > 90 THEN Returned(1900 + year.val)
             ELSE Returned(2000 + year.val)

\* a value without split() raises AttributeError, which is not caught
season_sort_key(season) ==
    IF season.kind # "str" THEN Raised
    ELSE LET year == ParseInt(FirstField(season.str))
         IN  IF ~year.ok THEN Returned(9999)
             ELSE IF year.val >= 90 THEN Returned(1900 + year.val)
             ELSE Returned(2000 + year.val)

\* sorted(seasons, key=season_sort_key) once every key is computed: an item
\* goes after the items whose key is not greater
RECURSIVE InsertSeason(_, _)
InsertSeason(done, season) ==
    IF done = <<>> THEN <<season>>
    ELSE IF season_sort_key(season).val < season_sort_key(Head(done)).val
         THEN <<season>> \o done
    ELSE <<Head(done)>> \o InsertSeason(Tail(done), season)

RECURSIVE SortSeasons(_)
SortSeasons(seasons) ==
    IF seasons = <<>> THEN <<>>
    ELSE InsertSeason(SortSeasons(DropLast(seasons)), seasons[Len(seasons)])

sort_seasons_chronologically(seasons) ==
    IF \E i \in 1..Len(seasons) : season_sort_key(seasons[i]).raised
    THEN Raised
    ELSE Returned(SortSeasons(seasons))

(***************************************************************************)
(* sort_seasons_chronologically as a state machine: one call on one list   *)
(***************************************************************************)
MaxSeasons == 4       \* labels in the list given to the sort

SeasonLabels == {
    Text(<<"9", "9", "/", "0", "0">>), Text(<<"0", "0", "/", "0", "1">>), Text(<<"8", "9", "/", "9", "0">>), Text(<<"9", "0", "/", "9", "1">>), Text(<<"9", "0", "/", "9", "2">>),
    Text(<<"x", "x", "/", "y", "y">>), Text(<<"0", "5">>), Text(<<"a", "b">>),
    Missing
}

InitSeasons ==
    /\ ss_seasons \in SeqsUpTo(SeasonLabels, MaxSeasons)
    /\ ss_result = NotRun
    /\ FeeIdle /\ ClassifyIdle /\ PipelineIdle /\ MatrixIdle
    /\ RowsIdle /\ FilterIdle /\ StatsIdle
    /\ PerSeasonIdle
    /\ TopIdle
    /\ FrameIdle
    /\ ScaleIdle

SortSeasonsChronologically ==
    /\ ss_result = NotRun
    /\ ss_result' = [run |-> TRUE,
                      out |-> sort_seasons_chronologically(ss_seasons)]
    /\ UNCHANGED <<ss_seasons, varsFee, varsClassify, varsPipeline, varsMatrix,
                   varsRows, varsFilter, varsStats,
                   varsPerSeason,
                   varsTop,
                   varsFrame,
                   varsScale>>

NextSeasons == SortSeasonsChronologically

SpecSeasons == InitSeasons /\ [][NextSeasons]_vars

(***************************************************************************)
(* filter_transfers_by_seasons                                             *)
(*                                                                         *)
(* The selection is None or a list of season labels.                       *)
(***************************************************************************)
None == [none |-> TRUE, list |-> <<>>]

List(l) == [none |-> FALSE, list |-> l]

\* mutant: an empty selection selects no row
filter_transfers_by_seasons_strict(tr, seasons) ==
    IF seasons.none THEN tr
    ELSE SelectSeq(tr, LAMBDA t : t.transfer_season \in Range(seasons.list))

filter_transfers_by_seasons(tr, seasons) ==
    IF seasons.none \/ Len(seasons.list) = 0 THEN tr
    ELSE SelectSeq(tr, LAMBDA t : t.transfer_season \in Range(seasons.list))

(***************************************************************************)
(* filter_transfers_by_seasons as a state machine: one call                *)
(***************************************************************************)
MaxFilterRows == 3    \* rows of the table given to the filter

Season1011 == Text(<<"1", "0", "/", "1", "1">>)

Season9900 == Text(<<"9", "9", "/", "0", "0">>)

SeasonGarbage == Text(<<"x", "x", "/", "y", "y">>)

\* rows of an enriched ledger: the columns the statistics read
SeasonRows ==
    {[from_club_id |-> m[1], to_club_id |-> m[2], fee_eur |-> m[3],
      transfer_season |-> season] :
        m \in {<<1, 2, Float(3)>>, <<2, 1, Float(1500)>>},
        season \in {Season1011, Season9900, Missing}}

Selections == {
    None,
    List(<<>>),
    List(<<Season1011>>),
    List(<<Season9900, Season1011>>),
    List(<<SeasonGarbage>>),
    List(<<Season1011, SeasonGarbage>>),
    List(<<Missing>>)
}

InitFilter ==
    /\ flt_transfers \in SeqsUpTo(SeasonRows, MaxFilterRows)
    /\ flt_seasons \in Selections
    /\ flt_result = NotRun
    /\ FeeIdle /\ ClassifyIdle /\ PipelineIdle /\ MatrixIdle
    /\ RowsIdle /\ SeasonsIdle /\ StatsIdle
    /\ PerSeasonIdle
    /\ TopIdle
    /\ FrameIdle
    /\ ScaleIdle

FilterTransfers ==
    /\ flt_result = NotRun
    /\ flt_result' = [run |-> TRUE,
                       val |-> filter_transfers_by_seasons(flt_transfers,
                                                           flt_seasons)]
    /\ UNCHANGED <<flt_transfers, flt_seasons, varsFee, varsClassify,
                   varsPipeline, varsMatrix, varsRows, varsSeasons, varsStats,
                   varsPerSeason,
                   varsTop,
                   varsFrame,
                   varsScale>>

NextFilter == FilterTransfers

SpecFilter == InitFilter /\ [][NextFilter]_vars

(***************************************************************************)
(* calculate_team_statistics                                               *)
(*                                                                         *)
(* A game is [home_club_id, away_club_id, home_club_goals,                 *)
(* away_club_goals, season], season being the year the season starts in.   *)
(***************************************************************************)
\* the loop over selected_seasons: the years of the labels int() accepts;
\* a label that fails with ValueError is passed over
RECURSIVE GamesYears(_)
GamesYears(selected) ==
    IF selected = <<>> THEN <<>>
    ELSE LET year == ParseInt(FirstField(Head(selected).str))
         IN  (IF ~year.ok THEN <<>>
              ELSE IF year.val >= 90 THEN <<1900 + year.val>>
              ELSE <<2000 + year.val>>)
             \o GamesYears(Tail(selected))

\* round(n / d, 2) for n >= 0 and d > 0, as a fraction: the nearest multiple
\* of 1/100, a tie going to the even one
Round2(n, d) ==
    LET q == (n * 100) \div d
        r == (n * 100) % d
        h == IF 2 * r > d THEN q + 1
             ELSE IF 2 * r = d /\ q % 2 = 1 THEN q + 1
             ELSE q
    IN  Rat(h, 100)

\* mutant: a draw counts as a win
ClubStatisticsDrawWins(club_id, games_filtered, transfers_filtered) ==
    LET home_games == SelectSeq(games_filtered,
                                LAMBDA g : g.home_club_id = club_id)
        away_games == SelectSeq(games_filtered,
                                LAMBDA g : g.away_club_id = club_id)
        home_wins == Len(SelectSeq(home_games,
                        LAMBDA g : g.home_club_goals >= g.away_club_goals))
        away_wins == Len(SelectSeq(away_games,
                        LAMBDA g : g.away_club_goals >= g.home_club_goals))
        total_wins == home_wins + away_wins
        total_games == Len(home_games) + Len(away_games)
    IN  [club_id |-> club_id,
         games_played |-> total_games,
         games_won |-> total_wins,
         win_pct |-> IF total_games > 0
                     THEN Round2(total_wins * 100, total_games)
                     ELSE RatZero,
         money_spent |-> SumFee(SelectSeq(transfers_filtered,
                                LAMBDA t : t.to_club_id = club_id)),
         money_earned |-> SumFee(SelectSeq(transfers_filtered,
                                LAMBDA t : t.from_club_id = club_id))]

\* the body of the loop over club_ids
ClubStatistics(club_id, games_filtered, transfers_filtered) ==
    LET home_games == SelectSeq(games_filtered,
                                LAMBDA g : g.home_club_id = club_id)
        away_games == SelectSeq(games_filtered,
                                LAMBDA g : g.away_club_id = club_id)
        home_wins == Len(SelectSeq(home_games,
                        LAMBDA g : g.home_club_goals > g.away_club_goals))
        away_wins == Len(SelectSeq(away_games,
                        LAMBDA g : g.away_club_goals > g.home_club_goals))
        total_wins == home_wins + away_wins
        total_games == Len(home_games) + Len(away_games)
    IN  [club_id |-> club_id,
         games_played |-> total_games,
         games_won |-> total_wins,
         win_pct |-> IF total_games > 0
                     THEN Round2(total_wins * 100, total_games)
                     ELSE RatZero,
         money_spent |-> SumFee(SelectSeq(transfers_filtered,
                                LAMBDA t : t.to_club_id = club_id)),
         money_earned |-> SumFee(SelectSeq(transfers_filtered,
                                LAMBDA t : t.from_club_id = club_id))]

\* mutant: the transfers are not filtered by the selection
calculate_team_statistics_all_transfers(club_ids, games, te, selected_seasons) ==
    LET selecting == ~selected_seasons.none /\ Len(selected_seasons.list) > 0
        games_years == IF selecting THEN GamesYears(selected_seasons.list)
                       ELSE <<>>
        games_filtered ==
            IF games_years # <<>>
            THEN SelectSeq(games, LAMBDA g : g.season \in Range(games_years))
            ELSE games
        transfers_filtered ==
            te
    IN  IF selecting /\ \E i \in 1..Len(selected_seasons.list) :
                            selected_seasons.list[i].kind # "str"
        THEN Raised
        ELSE Returned([i \in 1..Len(club_ids) |->
                 ClubStatistics(club_ids[i], games_filtered,
                                transfers_filtered)])

\* a selected label without split() raises AttributeError, which is not
\* caught; an empty games_years list filters nothing
calculate_team_statistics(club_ids, games, te, selected_seasons) ==
    LET selecting == ~selected_seasons.none /\ Len(selected_seasons.list) > 0
        games_years == IF selecting THEN GamesYears(selected_seasons.list)
                       ELSE <<>>
        games_filtered ==
            IF games_years # <<>>
            THEN SelectSeq(games, LAMBDA g : g.season \in Range(games_years))
            ELSE games
        transfers_filtered ==
            IF selecting THEN filter_transfers_by_seasons(te, selected_seasons)
            ELSE te
    IN  IF selecting /\ \E i \in 1..Len(selected_seasons.list) :
                            selected_seasons.list[i].kind # "str"
        THEN Raised
        ELSE Returned([i \in 1..Len(club_ids) |->
                 ClubStatistics(club_ids[i], games_filtered,
                                transfers_filtered)])

(***************************************************************************)
(* calculate_per_season_statistics                                         *)
(***************************************************************************)
\* one turn of the loop over seasons: the record of a season, or nothing
\* when int() refuses the label (continue)
SeasonStatistics(club_id, games, te, season) ==
    LET year == ParseInt(FirstField(season.str))
        game_year == IF year.val >= 90 THEN 1900 + year.val
                     ELSE 2000 + year.val
        season_games == SelectSeq(games, LAMBDA g : g.season = game_year)
        season_transfers ==
            SelectSeq(te, LAMBDA t : t.transfer_season = season)
        stats == ClubStatistics(club_id, season_games, season_transfers)
    IN  IF ~year.ok THEN <<>>
        ELSE <<[season |-> season,
                games_played |-> stats.games_played,
                games_won |-> stats.games_won,
                win_pct |-> stats.win_pct,
                money_spent |-> stats.money_spent,
                money_earned |-> stats.money_earned]>>

RECURSIVE PerSeasonRecords(_, _, _, _)
PerSeasonRecords(club_id, games, te, seasons) ==
    IF seasons = <<>> THEN <<>>
    ELSE SeasonStatistics(club_id, games, te, Head(seasons))
             \o PerSeasonRecords(club_id, games, te, Tail(seasons))

\* a label without split() raises AttributeError, which is not caught
calculate_per_season_statistics(club_id, games, te, seasons) ==
    IF \E i \in 1..Len(seasons) : seasons[i].kind # "str" THEN Raised
    ELSE Returned(PerSeasonRecords(club_id, games, te, seasons))

(***************************************************************************)
(* calculate_team_statistics as a state machine: one call                  *)
(***************************************************************************)
MaxGames == 3         \* rows of the games table
MaxStatTransfers == 1 \* rows of the ledger given to the statistics

Game(home, away, home_goals, away_goals, season) ==
    [home_club_id |-> home, away_club_id |-> away,
     home_club_goals |-> home_goals, away_club_goals |-> away_goals,
     season |-> season]

GameRows == {
    Game(1, 2, 1, 0, 2010),
    Game(1, 2, 0, 0, 2010),
    Game(2, 1, 0, 2, 2010),
    Game(2, 1, 1, 0, 1999),
    Game(1, 2, 0, 1, 1999),
    Game(1, 2, 1, 0, 2005)
}

StatTransferRows ==
    {t \in SeasonRows :
        \/ t.to_club_id = 2 /\ t.transfer_season = Season1011
        \/ t.to_club_id = 1 /\ t.transfer_season = Season9900
        \/ t.to_club_id = 2 /\ t.transfer_season = Missing}

\* the clubs asked for; club 5 has no game and no transfer
StatClubIds == <<1, 2, 5>>

InitStats ==
    /\ st_games \in SeqsUpTo(GameRows, MaxGames)
    /\ st_transfers \in SeqsUpTo(StatTransferRows, MaxStatTransfers)
    /\ st_selected \in Selections
    /\ st_result = NotRun
    /\ st_per_season = NotRun
    /\ FeeIdle /\ ClassifyIdle /\ PipelineIdle /\ MatrixIdle
    /\ RowsIdle /\ SeasonsIdle /\ FilterIdle
    /\ PerSeasonIdle
    /\ TopIdle
    /\ FrameIdle
    /\ ScaleIdle

CalculateTeamStatistics ==
    /\ st_result = NotRun
    /\ st_result' = [run |-> TRUE,
                      out |-> calculate_team_statistics(StatClubIds, st_games,
                                  st_transfers, st_selected)]
    /\ UNCHANGED <<st_games, st_transfers, st_selected, st_per_season, varsFee,
                   varsClassify, varsPipeline, varsMatrix, varsRows,
                   varsSeasons, varsFilter,
                   varsPerSeason,
                   varsTop,
                   varsFrame,
                   varsScale>>

\* the loop that fills per_season_stats_data: one call per club, with the
\* season list the team statistics are given
PerSeasonStatistics ==
    /\ st_per_season = NotRun
    /\ st_per_season' =
           [run |-> TRUE,
            out |-> IF st_selected.none
                       \/ \E i \in 1..Len(st_selected.list) :
                              st_selected.list[i].kind # "str"
                    THEN Raised
                    ELSE Returned([i \in 1..Len(StatClubIds) |->
                             calculate_per_season_statistics(StatClubIds[i],
                                 st_games, st_transfers, st_selected.list).val])]
    /\ UNCHANGED <<st_games, st_transfers, st_selected, st_result, varsFee,
                   varsClassify, varsPipeline, varsMatrix, varsRows,
                   varsSeasons, varsFilter,
                   varsPerSeason,
                   varsTop,
                   varsFrame,
                   varsScale>>

NextStats == CalculateTeamStatistics \/ PerSeasonStatistics

SpecStats == InitStats /\ [][NextStats]_vars

(***************************************************************************)
(* build_per_season_data                                                   *)
(***************************************************************************)
\* Series.unique(): the values in order of first appearance
RECURSIVE Unique(_)
Unique(values) ==
    IF values = <<>> THEN <<>>
    ELSE LET front == Unique(DropLast(values))
             v == values[Len(values)]
         IN  IF v \in Range(front) THEN front ELSE front \o <<v>>

\* the season list of the pipeline: the seasons of the ledger that are not
\* missing, each once, sorted chronologically
AllSeasons(te) ==
    LET present == SelectSeq(te, LAMBDA t : t.transfer_season # Missing)
        labels == [i \in 1..Len(present) |-> present[i].transfer_season]
    IN  sort_seasons_chronologically(Unique(labels)).val

build_per_season_data(club_ids, te, all_seasons) ==
    [season \in Range(all_seasons) |->
        LET season_transfers ==
                SelectSeq(te, LAMBDA t : t.transfer_season = season)
        IN  [money_in |-> money_in_matrix(club_ids, season_transfers),
             money_out |-> money_out_matrix(club_ids, season_transfers),
             players_in |-> players_in_matrix(club_ids, season_transfers),
             players_out |-> players_out_matrix(club_ids, season_transfers)]]

(***************************************************************************)
(* build_per_season_data as a state machine: one call on the ledger and    *)
(* its season list                                                         *)
(***************************************************************************)
MaxSeasonLedger == 2  \* rows of the ledger given to build_per_season_data

SeasonMoves == {
    <<Side(2, "France"), Side(1, "Spain")>>,
    <<Side(NullId, "Retired"), Side(1, "Spain")>>,
    <<Side(1, "Spain"), Side(2, "France")>>,
    <<Side(1, "Spain"), Side(NullId, "Without Club")>>
}

SeasonPayloads == {
    [fee_eur |-> Float(3), player_id |-> 7],
    [fee_eur |-> Float(1500), player_id |-> 7],
    [fee_eur |-> Zero, player_id |-> NullId]
}

\* rows of the enriched ledger with their season
SeasonLedgerRows ==
    {[from_club_id |-> mv[1].club_id, from_country |-> mv[1].country,
      to_club_id |-> mv[2].club_id, to_country |-> mv[2].country,
      fee_eur |-> pl.fee_eur, player_id |-> pl.player_id,
      transfer_season |-> season] :
        mv \in SeasonMoves, pl \in SeasonPayloads,
        season \in {Season1011, Season9900, Missing}}

InitPerSeason ==
    /\ psd_club_ids \in {<<1, 2>>, <<2, 5>>}
    /\ psd_transfers \in SeqsUpTo(SeasonLedgerRows, MaxSeasonLedger)
    /\ psd = NotRun
    /\ FeeIdle /\ ClassifyIdle /\ PipelineIdle /\ MatrixIdle
    /\ RowsIdle /\ SeasonsIdle /\ FilterIdle /\ StatsIdle
    /\ TopIdle
    /\ FrameIdle
    /\ ScaleIdle

BuildPerSeasonData ==
    /\ psd = NotRun
    /\ LET all_seasons == AllSeasons(psd_transfers)
       IN  psd' = [run |-> TRUE,
                   all_seasons |-> all_seasons,
                   per_season |-> build_per_season_data(psd_club_ids,
                                      psd_transfers, all_seasons)]
    /\ UNCHANGED <<psd_club_ids, psd_transfers, varsFee, varsClassify,
                   varsPipeline, varsMatrix, varsRows, varsSeasons,
                   varsFilter, varsStats,
                   varsTop,
                   varsFrame,
                   varsScale>>

NextPerSeason == BuildPerSeasonData

SpecPerSeason == InitPerSeason /\ [][NextPerSeason]_vars

(***************************************************************************)
(* build_top_clubs                                                         *)
(***************************************************************************)
\* pd.concat([games['home_club_id'], games['away_club_id']])
HomeThenAway(games) ==
    [i \in 1..Len(games) |-> games[i].home_club_id]
        \o [i \in 1..Len(games) |-> games[i].away_club_id]

Occurrences(values, v) == Len(SelectSeq(values, LAMBDA w : w = v))

\* Series.value_counts().index: the values that are not missing, each once,
\* by non-increasing count; the order of values of equal count is not fixed
\* by the call, so every such order is a possible index
ValueCountsIndex(values) ==
    LET present == Range(values) \ {NullId}
    IN  {r \in [1..Cardinality(present) -> present] :
            /\ \A i, j \in DOMAIN r : i # j => r[i] # r[j]
            /\ \A i, j \in DOMAIN r :
                   i < j => Occurrences(values, r[i]) >= Occurrences(values, r[j])}

\* Series.head(n)
FirstN(list, n) == SubSeq(list, 1, IF n < Len(list) THEN n ELSE Len(list))

\* mutant: the unknown ids are removed before the first top_n are taken
build_top_clubs_refilled(games, club_table, n) ==
    LET known_ids == {club_table[i].club_id : i \in 1..Len(club_table)}
    IN  {FirstN(SelectSeq(club_counts, LAMBDA cid : cid \in known_ids), n) :
            club_counts \in ValueCountsIndex(HomeThenAway(games))}

\* the lists the call can return, one per possible order of equal counts
build_top_clubs(games, club_table, n) ==
    LET known_ids == {club_table[i].club_id : i \in 1..Len(club_table)}
    IN  {SelectSeq(FirstN(club_counts, n), LAMBDA cid : cid \in known_ids) :
            club_counts \in ValueCountsIndex(HomeThenAway(games))}

(***************************************************************************)
(* build_top_clubs as a state machine: one call                            *)
(***************************************************************************)
MaxTopGames == 3      \* rows of the games table given to build_top_clubs
MaxTopN == 3          \* largest top_n asked for

TopGameRows == {
    Game(1, 2, 1, 0, 2010),
    Game(2, 3, 0, 0, 2010),
    Game(9, 1, 0, 2, 2010),
    Game(3, 9, 1, 0, 1999),
    Game(NullId, 2, 0, 1, 1999)
}

TopClubTables == {
    <<[club_id |-> 1], [club_id |-> 2], [club_id |-> 3]>>,
    <<[club_id |-> 2], [club_id |-> 1], [club_id |-> 2]>>,
    <<[club_id |-> 3]>>
}

InitTop ==
    /\ top_games \in SeqsUpTo(TopGameRows, MaxTopGames)
    /\ top_clubs \in TopClubTables
    /\ top_n \in 1..MaxTopN
    /\ top_result = NotRun
    /\ FeeIdle /\ ClassifyIdle /\ PipelineIdle /\ MatrixIdle
    /\ RowsIdle /\ SeasonsIdle /\ FilterIdle /\ StatsIdle
    /\ PerSeasonIdle
    /\ FrameIdle
    /\ ScaleIdle

BuildTopClubs ==
    /\ top_result = NotRun
    /\ \E top_club_ids \in build_top_clubs(top_games, top_clubs, top_n) :
           top_result' = [run |-> TRUE, val |-> top_club_ids]
    /\ UNCHANGED <<top_games, top_clubs, top_n, varsFee, varsClassify,
                   varsPipeline, varsMatrix, varsRows, varsSeasons,
                   varsFilter, varsStats, varsPerSeason,
                   varsFrame,
                   varsScale>>

NextTop == BuildTopClubs

SpecTop == InitTop /\ [][NextTop]_vars

(***************************************************************************)
(* Claims about parse_fee (checked under SpecFee)                          *)
(***************************************************************************)
FeeDone == fee_result.run

FeeText == fee_value.str

\* C1: for every input value (missing, a number of any sign, or a text)
\* parse_fee returns a number >= 0.
C1_FeeNonNegative == FeeDone => IsNonNegative(fee_result.val)

\* the markers as the specification lists them
C2_Markers == {
    <<"f", "r", "e", "e">>, <<"l", "o", "a", "n">>,
    <<"e", "n", "d", " ", "o", "f", " ", "l", "o", "a", "n">>,
    <<"?", "-", "o", "p", "t", "i", "o", "n">>,
    <<"o", "p", "t", "i", "o", "n", " ", "t", "o", " ", "b", "u", "y">>,
    <<"s", "w", "a", "p">>, <<"?">>, <<"-">>
}

C2_HasMarker == \E m \in C2_Markers : Contains(Lower(FeeText), m)

\* C2: a text fee whose lower-cased form contains a non-cash marker anywhere
\* (a hyphen inside or in front of a number included) parses to 0.0.
C2_MarkerGivesZero ==
    (FeeDone /\ fee_value.kind = "str" /\ C2_HasMarker) => fee_result.val = Zero

\* C2 witness: the fee "-35m", a number behind a hyphen, was parsed to 0.0
C2_Witness ==
    /\ FeeDone
    /\ fee_value = Text(<<"-", "3", "5", "m">>)
    /\ fee_result.val = Zero

\* what is left of a marker-free text once the currency tokens and the
\* commas are taken out
C3_Remainder ==
    LET l == Lower(Strip(FeeText))
    IN  Strip(Remove(Remove(Remove(Remove(l, <<"euro">>), <<"e", "u", "r">>),
                            <<"f", "e", "e">>), <<",">>))

C3_Expected ==
    LET rem == C3_Remainder
        suffixM == EndsWith(rem, <<"m">>)
        suffixK == ~suffixM /\ EndsWith(rem, <<"k">>)
        n == ParseFloat(IF suffixM \/ suffixK THEN DropLast(rem) ELSE rem)
    IN  IF ~n.ok THEN Zero
        ELSE IF suffixM THEN Times10(n.val, 6)
        ELSE IF suffixK THEN Times10(n.val, 3)
        ELSE n.val

C3_Examples ==
    /\ fee_value = Text(<<"1", "0", "m">>) => fee_result.val = Float(10000000)
    /\ fee_value = Text(<<"5", "0", "0", "k">>) => fee_result.val = Float(500000)
    /\ fee_value = Text(<<"euro", "3", "5", "m">>) => fee_result.val = Float(35000000)
    /\ fee_value = Text(<<"g", "a", "r", "b", "a", "g", "e">>) => fee_result.val = Zero

\* C3: a text fee without a non-cash marker parses to N * 1,000,000 for a
\* number N with a trailing m, N * 1,000 with a trailing k, N without a
\* suffix, and 0.0 when what is left is no number; '10m', '500k', 'EUR-sign
\* 35m' and 'garbage' give 10,000,000, 500,000, 35,000,000 and 0.
C3_TextFeeValue ==
    (FeeDone /\ fee_value.kind = "str" /\ ~C2_HasMarker) =>
        /\ fee_result.val = C3_Expected
        /\ C3_Examples

\* C3 witness: '500k' was parsed to 500,000
C3_Witness ==
    /\ FeeDone
    /\ fee_value = Text(<<"5", "0", "0", "k">>)
    /\ fee_result.val = Float(500000)

(***************************************************************************)
(* Claims about classify_club_country (checked under SpecClassify)         *)
(***************************************************************************)
ClsDone == cls_result.run

C4_NameHas(t) ==
    cls_args.club_name.isstr /\ Contains(Lower(cls_args.club_name.chars), t)

C4_Expected ==
    IF cls_args.club_id # NullId /\ cls_args.club_id \in DOMAIN cls_args.map
    THEN cls_args.map[cls_args.club_id]
    ELSE IF C4_NameHas(<<"w", "i", "t", "h", "o", "u", "t", " ", "c", "l", "u", "b">>)
            \/ C4_NameHas(<<"n", "o", " ", "c", "l", "u", "b">>)
    THEN "Without Club"
    ELSE IF C4_NameHas(<<"r", "e", "t", "i", "r", "e", "d">>) THEN "Retired"
    ELSE "Unknown"

EnrichDone == pc = "enriched"

\* the raw columns of an enriched row
C5_Raw(r) ==
    RawTransfer(r.from_club_id, r.from_club_name, r.to_club_id, r.to_club_name,
                r.player_id, r.transfer_fee, r.transfer_season)

\* C5: build_transfer_enriched yields exactly one row per ledger row, in the
\* ledger's order, whatever the fees and clubs are, and each side's bucket is
\* classify_club_country of that side's own id and name.
C5_RowPreserving ==
    EnrichDone =>
        /\ Len(transfers_enriched) = Len(transfers)
        /\ \A i \in 1..Len(transfers) :
            LET r == transfers[i]
                e == transfers_enriched[i]
            IN  /\ C5_Raw(e) = r
                /\ e.from_country =
                     classify_club_country(r.from_club_id, r.from_club_name,
                                           club_country_map)
                /\ e.to_country =
                     classify_club_country(r.to_club_id, r.to_club_name,
                                           club_country_map)

\* C5 witness: a ledger of two rows, one with an unparsable fee and a club
\* that is in no table, was enriched to two rows
C5_Witness ==
    /\ EnrichDone
    /\ Len(transfers) = 2 /\ Len(transfers_enriched) = 2
    /\ transfers[2].transfer_fee = Text(<<"g", "a", "r", "b", "a", "g", "e">>)
    /\ transfers_enriched[2].fee_eur = Zero
    /\ transfers_enriched[2].from_country = "Unknown"
    /\ transfers_enriched[1].from_country # transfers_enriched[1].to_country

C6_Sentinels == {"Without Club", "Retired", "Unknown"}

\* C6: in every enriched transfer from_country and to_country are a value of
\* the resolved club_country_map or one of the sentinels 'Without Club',
\* 'Retired', 'Unknown', and never missing.
C6_CountryBuckets ==
    EnrichDone =>
        \A i \in 1..Len(transfers_enriched) :
            \A c \in {transfers_enriched[i].from_country,
                       transfers_enriched[i].to_country} :
                /\ c # NullCountry
                /\ c \in Range(club_country_map) \cup C6_Sentinels

\* C6 witness: a club whose competition has no country is in the map, and a
\* transfer from it was enriched
C6_Witness ==
    /\ EnrichDone
    /\ \E i \in 1..Len(clubs) :
            /\ clubs[i].club_id = 1
            /\ \E j \in 1..Len(competitions) :
                    /\ competitions[j].competition_id = clubs[i].domestic_competition_id
                    /\ competitions[j].country_name = NullCountry
    /\ \E i \in 1..Len(transfers_enriched) :
            /\ transfers_enriched[i].from_club_id = 1
            /\ transfers_enriched[i].from_country = "Unknown"
            /\ transfers_enriched[i].to_country = "Retired"

(***************************************************************************)
(* Claims about the matrix builders (checked under SpecMatrix)             *)
(***************************************************************************)
MxDone == mx.run

\* the ledger rows that count for cell (r, c) of each matrix, as the
\* specification describes them
C7_Qualifies(kind, t, r, c) ==
    CASE kind = "money_in" ->
            /\ t.to_club_id = c /\ t.from_country = r /\ t.fee_eur.m > 0
            /\ r \notin {"Without Club", "Retired"}
      [] kind = "money_out" ->
            /\ t.from_club_id = c /\ t.to_country = r /\ t.fee_eur.m > 0
            /\ r \notin {"Without Club", "Retired"}
      [] kind = "players_in" -> t.to_club_id = c /\ t.from_country = r
      [] kind = "players_out" -> t.from_club_id = c /\ t.to_country = r

C7_WellFormed(mat, kind, zero) ==
    LET T == mx_transfers
        any == \E i \in 1..Len(T) : \E r \in Range(AlphaOrder) :
                   \E c \in Range(mx_club_ids) : C7_Qualifies(kind, T[i], r, c)
    IN  /\ mat.columns = mx_club_ids
        /\ DOMAIN mat.cell = Range(mat.index) \X Range(mx_club_ids)
        /\ \A r \in Range(mat.index) : \A c \in Range(mx_club_ids) :
               (~\E i \in 1..Len(T) : C7_Qualifies(kind, T[i], r, c))
                   => mat.cell[<<r, c>>] = zero
        /\ ~any => mat.index = <<>>

\* C7: each of the four matrices has exactly the requested club ids as its
\* columns, in the requested order, and 0 in every cell without a qualifying
\* transfer; with no qualifying transfer at all it has no row and still
\* every column.
C7_FullColumns ==
    MxDone =>
        /\ C7_WellFormed(mx.money_in, "money_in", Zero)
        /\ C7_WellFormed(mx.money_out, "money_out", Zero)
        /\ C7_WellFormed(mx.players_in, "players_in", 0)
        /\ C7_WellFormed(mx.players_out, "players_out", 0)

\* C7 witness: club 5 has no transfer and still a column of zeros beside
\* club 1, which has a paid one
C7_Witness ==
    /\ MxDone
    /\ mx_club_ids = <<1, 5>>
    /\ mx.money_in.index = <<"France">>
    /\ mx.money_in.columns = <<1, 5>>
    /\ mx.money_in.cell[<<"France", 5>>] = Zero
    /\ mx.money_in.cell[<<"France", 1>>] = Float(3)
    /\ mx.money_out.index = <<>> /\ mx.money_out.columns = <<1, 5>>

C8_Paid(T) == SelectSeq(T, LAMBDA t : t.fee_eur.m > 0)

\* the ledger without its i-th row
C8_Without(T, i) == SubSeq(T, 1, i - 1) \o SubSeq(T, i + 1, Len(T))

\* the value of a cell, 0 when the matrix has no such row
C8_Cell(mat, r, c) ==
    IF <<r, c>> \in DOMAIN mat.cell THEN mat.cell[<<r, c>>] ELSE 0

\* C8: a transfer with fee_eur <= 0 contributes nothing to the money
\* matrices (they are the matrices of the ledger without such transfers),
\* while each such transfer to or from a requested club adds 1 to its cell
\* of players_in_matrix / players_out_matrix.
C8_FreeTransfers ==
    MxDone =>
        /\ mx.money_in = money_in_matrix(mx_club_ids, C8_Paid(mx_transfers))
        /\ mx.money_out = money_out_matrix(mx_club_ids, C8_Paid(mx_transfers))
        /\ \A i \in 1..Len(mx_transfers) :
            LET t == mx_transfers[i]
                rest == C8_Without(mx_transfers, i)
            IN  t.fee_eur.m <= 0 =>
                /\ t.to_club_id \in Range(mx_club_ids) =>
                     C8_Cell(mx.players_in, t.from_country, t.to_club_id) =
                        C8_Cell(players_in_matrix(mx_club_ids, rest),
                                t.from_country, t.to_club_id) + 1
                /\ t.from_club_id \in Range(mx_club_ids) =>
                     C8_Cell(mx.players_out, t.to_country, t.from_club_id) =
                        C8_Cell(players_out_matrix(mx_club_ids, rest),
                                t.to_country, t.from_club_id) + 1

RECURSIVE C9_Sum(_, _, _)
C9_Sum(T, r, c) ==
    IF T = <<>> THEN Zero
    ELSE LET t == Head(T)
             rest == C9_Sum(Tail(T), r, c)
         IN  IF t.to_club_id = c /\ t.from_country = r /\ t.fee_eur.m > 0
             THEN Add(t.fee_eur, rest) ELSE rest

\* C9: every cell (r, c) of money_in_matrix is the sum of fee_eur over the
\* transfers to club c from bucket r with fee_eur > 0; 'Without Club' and
\* 'Retired' are never rows, and any other bucket is a row exactly when a
\* transfer with fee_eur > 0 to a requested club comes from it.
C9_MoneyInCells ==
    MxDone =>
        LET mat == mx.money_in
            T == mx_transfers
        IN  /\ \A r \in Range(mat.index) : \A c \in Range(mx_club_ids) :
                   mat.cell[<<r, c>>] = C9_Sum(T, r, c)
            /\ "Without Club" \notin Range(mat.index)
            /\ "Retired" \notin Range(mat.index)
            /\ \A r \in Range(AlphaOrder) \ {"Without Club", "Retired"} :
                   r \in Range(mat.index) <=>
                       \E i \in 1..Len(T) :
                           /\ T[i].to_club_id \in Range(mx_club_ids)
                           /\ T[i].from_country = r
                           /\ T[i].fee_eur.m > 0

\* C9 witness: two paid transfers from France to club 1 add up in one cell,
\* beside a paid transfer from a retired player that is in no row
C9_Witness ==
    /\ MxDone
    /\ Len(mx_transfers) = 2
    /\ mx_club_ids = <<1, 2>>
    /\ mx.money_in.index = <<"France">>
    /\ mx.money_in.cell[<<"France", 1>>] = Float(1503)

\* the ledger with the from_* and to_* fields exchanged on every row
C10_Swap(T) ==
    [i \in 1..Len(T) |->
        [from_club_id |-> T[i].to_club_id, from_country |-> T[i].to_country,
         to_club_id |-> T[i].from_club_id, to_country |-> T[i].from_country,
         fee_eur |-> T[i].fee_eur, player_id |-> T[i].player_id]]

\* C10: money_out_matrix is money_in_matrix of the ledger with the from_*
\* and to_* fields exchanged.
C10_Mirror ==
    MxDone => mx.money_out = money_in_matrix(mx_club_ids, C10_Swap(mx_transfers))

\* C10 witness: club 1 sold one player to France and one to a retired
\* state, both for a fee, and only France is a row of money_out
C10_Witness ==
    /\ MxDone
    /\ mx_club_ids = <<1, 2>>
    /\ \E i \in 1..Len(mx_transfers) :
            /\ mx_transfers[i].from_club_id = 1
            /\ mx_transfers[i].to_country = "Retired"
            /\ mx_transfers[i].fee_eur = Float(3)
    /\ mx.money_out.index = <<"France">>
    /\ mx.money_out.cell[<<"France", 1>>] = Float(3)
    /\ mx.money_out.cell[<<"France", 2>>] = Zero

\* the number of ledger rows to club c from bucket r
C11_Records(T, r, c) ==
    Len(SelectSeq(T, LAMBDA t : t.to_club_id = c /\ t.from_country = r))

RECURSIVE C11_ColumnSum(_, _, _)
C11_ColumnSum(mat, rows, c) ==
    IF rows = <<>> THEN 0
    ELSE mat.cell[<<Head(rows), c>>] + C11_ColumnSum(mat, Tail(rows), c)

\* C11: every cell (r, c) of players_in_matrix is the number of transfer
\* records to club c from bucket r, whatever their fee and other fields, so
\* each column adds up to the number of records whose to_club_id is that club.
C11_PlayersInCounts ==
    MxDone =>
        LET mat == mx.players_in
            T == mx_transfers
        IN  \A c \in Range(mx_club_ids) :
                /\ \A r \in Range(mat.index) :
                       mat.cell[<<r, c>>] = C11_Records(T, r, c)
                /\ C11_ColumnSum(mat, mat.index, c) =
                       Len(SelectSeq(T, LAMBDA t : t.to_club_id = c))

C12_Sentinels == <<"Without Club", "Retired", "Unknown">>

\* position of a label in a list of distinct labels
C12_Pos(list, v) == CHOOSE i \in 1..Len(list) : list[i] = v

C12_Ordered(index) ==
    \A i \in 1..Len(index) : \A j \in 1..Len(index) :
        i < j =>
            LET a == index[i]
                b == index[j]
                aSent == a \in Range(C12_Sentinels)
                bSent == b \in Range(C12_Sentinels)
            IN  /\ ~(aSent /\ ~bSent)
                /\ (aSent /\ bSent) =>
                       C12_Pos(C12_Sentinels, a) < C12_Pos(C12_Sentinels, b)
                /\ (~aSent /\ ~bSent) =>
                       C12_Pos(AlphaOrder, a) < C12_Pos(AlphaOrder, b)

\* C12: in each of the four matrices the rows 'Without Club', 'Retired' and
\* 'Unknown' come after every real-country row, in that relative order, and
\* the real-country rows are in alphabetical order.
C12_SentinelsLast ==
    MxDone =>
        /\ C12_Ordered(mx.money_in.index)
        /\ C12_Ordered(mx.money_out.index)
        /\ C12_Ordered(mx.players_in.index)
        /\ C12_Ordered(mx.players_out.index)

(***************************************************************************)
(* Claims about ordered_rows (checked under SpecRows)                      *)
(***************************************************************************)
RowsDone == or_result.run

\* how many times v occurs in list
C13_Occurrences(list, v) == Len(SelectSeq(list, LAMBDA w : w = v))

\* the labels of list are in non-decreasing alphabetical order
C13_Alphabetical(list) ==
    \A i \in 1..Len(list) : \A j \in 1..Len(list) :
        i < j => C12_Pos(AlphaOrder, list[i]) <= C12_Pos(AlphaOrder, list[j])

\* C13: ordered_rows(labels, extras) is the labels that are not extras in
\* alphabetical order, followed by exactly the extras that occur in labels, in
\* the order extras lists them; no label is lost and none is added.
C13_OrderedRows ==
    RowsDone =>
        LET res == or_result.val
            tail == SelectSeq(or_extras, LAMBDA v : v \in Range(or_index))
            k == Len(res) - Len(tail)
        IN  /\ k >= 0
            /\ SubSeq(res, k + 1, Len(res)) = tail
            /\ C13_Alphabetical(SubSeq(res, 1, k))
            /\ \A v \in Range(AlphaOrder) \ Range(or_extras) :
                   C13_Occurrences(SubSeq(res, 1, k), v) =
                       C13_Occurrences(or_index, v)
            /\ Range(SubSeq(res, 1, k)) \cap Range(or_extras) = {}
            /\ Range(res) = Range(or_index)

C13_Witness ==
    /\ RowsDone
    /\ or_index = <<"Spain", "Retired", "France", "Without Club">>
    /\ or_extras = DefaultExtras
    /\ or_result.val = <<"France", "Spain", "Without Club", "Retired">>

C14_Call ==
    /\ RowsDone
    /\ or_index = <<"France", "Unknown", "Spain", "Retired">>
    /\ or_extras = <<"Without Club", "Retired">>

\* C14 as stated: the call returns ['France', 'Spain', 'Retired'], 'Unknown'
\* being dropped.
C14_UnknownDropped ==
    C14_Call => or_result.val = <<"France", "Spain", "Retired">>

\* C14: ordered_rows(['France', 'Unknown', 'Spain', 'Retired'],
\* extras=('Without Club', 'Retired')) returns ['France', 'Spain', 'Unknown',
\* 'Retired']: 'Unknown' is not an extra and stays in the alphabetical part.
C14_UnknownKept ==
    C14_Call => or_result.val = <<"France", "Spain", "Unknown", "Retired">>

C14_Witness == C14_Call /\ "Unknown" \in Range(or_result.val)

(***************************************************************************)
(* Claims about column_percentage_matrix (checked under SpecMatrix)        *)
(***************************************************************************)
\* the integer a cell of a builder's matrix stands for
C15_Value(v, dtype) == IF dtype = "int64" THEN v ELSE v.m * Pow10(v.x)

RECURSIVE C15_Total(_, _, _, _)
C15_Total(mat, dtype, rows, c) ==
    IF rows = <<>> THEN 0
    ELSE C15_Value(mat.cell[<<Head(rows), c>>], dtype)
             + C15_Total(mat, dtype, Tail(rows), c)

\* the sum of the fractions of column c, as numerator and denominator
RECURSIVE C15_PctSum(_, _, _)
C15_PctSum(pct, rows, c) ==
    IF rows = <<>> THEN [n |-> 0, d |-> 1]
    ELSE LET q == pct.cell[<<Head(rows), c>>]
             rest == C15_PctSum(pct, Tail(rows), c)
         IN  [n |-> q.n * rest.d + rest.n * q.d, d |-> q.d * rest.d]

C15_Percentages(mat, dtype, pct) ==
    (mat.index # <<>> /\ mat.columns # <<>>) =>
        /\ pct.index = mat.index /\ pct.columns = mat.columns
        /\ \A c \in Range(mat.columns) :
               LET total == C15_Total(mat, dtype, mat.index, c)
                   sum == C15_PctSum(pct, mat.index, c)
               IN  /\ total > 0 =>
                          /\ \A r \in Range(mat.index) :
                                 LET q == pct.cell[<<r, c>>]
                                     v == C15_Value(mat.cell[<<r, c>>], dtype)
                                 IN  q.d > 0 /\ q.n * total = v * 100 * q.d
                          /\ sum.n = 100 * sum.d
                   /\ total = 0 =>
                          \A r \in Range(mat.index) : pct.cell[<<r, c>>].n = 0
                   /\ \A r \in Range(mat.index) :
                          LET q == pct.cell[<<r, c>>]
                          IN  q.d > 0 /\ 0 <= q.n /\ q.n <= 100 * q.d

\* C15: for a non-empty matrix, every column with a positive total has the
\* cells cell / total * 100, which add up to 100; every column with total 0
\* has all cells 0; and every cell of the result lies between 0 and 100.
C15_ColumnPercentages ==
    MxDone =>
        /\ C15_Percentages(mx.money_in, "float64", mx.money_in_pct)
        /\ C15_Percentages(mx.money_out, "float64", mx.money_out_pct)
        /\ C15_Percentages(mx.players_in, "int64", mx.players_in_pct)
        /\ C15_Percentages(mx.players_out, "int64", mx.players_out_pct)

C15_Witness ==
    /\ MxDone
    /\ mx.money_in.index = <<"France", "Unknown">>
    /\ mx.money_in.columns = <<1, 2>>
    /\ mx.money_in.cell[<<"France", 1>>] = Float(3)
    /\ mx.money_in.cell[<<"Unknown", 1>>] = Float(1500)
    /\ mx.money_in_pct.cell[<<"France", 1>>] = [n |-> 100, d |-> 501]
    /\ mx.money_in_pct.cell[<<"Unknown", 1>>] = [n |-> 50000, d |-> 501]
    /\ mx.money_in_pct.cell[<<"France", 2>>] = [n |-> 0, d |-> 1]

(***************************************************************************)
(* Claims about sort_seasons_chronologically (checked under SpecSeasons)   *)
(***************************************************************************)
SeasonsDone == ss_result.run

\* a label of the form 'YY/YY'
C16_WellFormed(season) ==
    /\ season.kind = "str"
    /\ Len(season.str) = 5
    /\ season.str[3] = "/"
    /\ \A i \in {1, 2, 4, 5} : season.str[i] \in Digits

\* the key of a 'YY/YY' label
C16_Key(season) ==
    LET yy == 10 * DigitValue(season.str[1]) + DigitValue(season.str[2])
    IN  IF yy >= 90 THEN 1900 + yy ELSE 2000 + yy

C16_Example == <<Text(<<"9", "9", "/", "0", "0">>), Text(<<"0", "0", "/", "0", "1">>), Text(<<"8", "9", "/", "9", "0">>), Text(<<"9", "0", "/", "9", "1">>)>>

C16_ExampleSorted == <<Text(<<"9", "0", "/", "9", "1">>), Text(<<"9", "9", "/", "0", "0">>), Text(<<"0", "0", "/", "0", "1">>), Text(<<"8", "9", "/", "9", "0">>)>>

\* C16: 'YY/YY' labels come out in non-decreasing order of the key 1900+YY
\* (YY >= 90) or 2000+YY (YY < 90), labels of equal key keep their input
\* order, and ['99/00', '00/01', '89/90', '90/91'] is returned as
\* ['90/91', '99/00', '00/01', '89/90'].
C16_Chronological ==
    (SeasonsDone /\ \A i \in 1..Len(ss_seasons) : C16_WellFormed(ss_seasons[i]))
    =>
        /\ ~ss_result.out.raised
        /\ LET res == ss_result.out.val
           IN  /\ Len(res) = Len(ss_seasons)
               /\ \A i \in 1..Len(res) : \A j \in 1..Len(res) :
                      i < j => C16_Key(res[i]) <= C16_Key(res[j])
               /\ \A k \in {C16_Key(ss_seasons[i]) : i \in 1..Len(ss_seasons)} :
                      SelectSeq(res, LAMBDA v : C16_Key(v) = k) =
                          SelectSeq(ss_seasons, LAMBDA v : C16_Key(v) = k)
               /\ ss_seasons = C16_Example => res = C16_ExampleSorted

C16_Witness ==
    /\ SeasonsDone
    /\ ss_seasons = C16_Example
    /\ ss_result.out = Returned(C16_ExampleSorted)

\* a label the claim calls parsable: a string with a '/' whose first part is
\* numeric
C17_Parsable(season) ==
    /\ season.kind = "str"
    /\ "/" \in Range(season.str)
    /\ LET first == FirstField(season.str)
       IN  first # <<>> /\ \A i \in 1..Len(first) : first[i] \in Digits

\* C17: the sort never fails, and every label that cannot be parsed as
\* 'YY/YY' (non-numeric first part, missing '/', not a string) comes after
\* every label that can.
C17_UnparsableLast ==
    SeasonsDone =>
        /\ ~ss_result.out.raised
        /\ LET res == ss_result.out.val
           IN  \A i \in 1..Len(res) : \A j \in 1..Len(res) :
                   (C17_Parsable(res[i]) /\ ~C17_Parsable(res[j])) => i < j

(***************************************************************************)
(* Claims about filter_transfers_by_seasons (checked under SpecFilter)     *)
(***************************************************************************)
FilterDone == flt_result.run

\* the positions of tr whose season is selected, in increasing order
C18_Kept(tr, selected) ==
    {i \in 1..Len(tr) : \E j \in 1..Len(selected) :
                            tr[i].transfer_season = selected[j]}

\* res is tr restricted to the positions in kept, order preserved
C18_Restriction(res, tr, kept) ==
    /\ Len(res) = Cardinality(kept)
    /\ \A i \in kept :
           res[Cardinality({k \in kept : k <= i})] = tr[i]

\* C18: the call returns the table as it is when seasons is None or empty,
\* otherwise exactly the rows whose transfer_season is one of seasons, in
\* their original order; the table given is the same after the call.
C18_FilterBySeasons ==
    [][flt_result'.run =>
          /\ flt_transfers' = flt_transfers
          /\ IF flt_seasons.none \/ flt_seasons.list = <<>>
             THEN flt_result'.val = flt_transfers
             ELSE C18_Restriction(flt_result'.val, flt_transfers,
                                  C18_Kept(flt_transfers, flt_seasons.list))]_vars

C18_Witness ==
    /\ FilterDone
    /\ flt_seasons = List(<<Season1011>>)
    /\ Len(flt_transfers) = 3
    /\ flt_transfers[1].transfer_season = Season1011
    /\ flt_transfers[2].transfer_season = Season9900
    /\ flt_transfers[3].transfer_season = Season1011
    /\ flt_transfers[1] # flt_transfers[3]
    /\ flt_result.val = <<flt_transfers[1], flt_transfers[3]>>

(***************************************************************************)
(* Claims about calculate_team_statistics (checked under SpecStats)        *)
(***************************************************************************)
StatsDone == st_result.run

StatsReturned == StatsDone /\ ~st_result.out.raised

\* the games of a table in which the club has more goals than its opponent,
\* and those it appears in, a game counting once per side
C19_Won(games, club) ==
    Len(SelectSeq(games, LAMBDA g :
            g.home_club_id = club /\ g.home_club_goals > g.away_club_goals))
    + Len(SelectSeq(games, LAMBDA g :
            g.away_club_id = club /\ g.away_club_goals > g.home_club_goals))

C19_Played(games, club) ==
    Len(SelectSeq(games, LAMBDA g : g.home_club_id = club))
    + Len(SelectSeq(games, LAMBDA g : g.away_club_id = club))

\* the counts of a record: wins are strict, and never more than the games
C19_Counts(rec) ==
    /\ 0 <= rec.games_won /\ rec.games_won <= rec.games_played
    /\ (st_selected.none \/ st_selected.list = <<>>) =>
           /\ rec.games_won = C19_Won(st_games, rec.club_id)
           /\ rec.games_played = C19_Played(st_games, rec.club_id)

C19_InRange(q) == q.d > 0 /\ 0 <= q.n /\ q.n <= 100 * q.d

\* C19 as stated: win_pct is games_won / games_played * 100.
C19_ExactPercentage ==
    StatsReturned =>
        \A i \in 1..Len(st_result.out.val) :
            LET rec == st_result.out.val[i]
            IN  /\ C19_Counts(rec)
                /\ C19_InRange(rec.win_pct)
                /\ rec.games_played > 0 =>
                       rec.win_pct.n * rec.games_played =
                           rec.games_won * 100 * rec.win_pct.d
                /\ rec.games_played = 0 => rec.win_pct.n = 0

\* C19: for every club games_won counts only the games in which the club's
\* goals are strictly greater, 0 <= games_won <= games_played, win_pct is
\* games_won / games_played * 100 rounded to 2 decimals and lies between 0
\* and 100, and it is 0 when games_played is 0.
C19_RoundedPercentage ==
    StatsReturned =>
        \A i \in 1..Len(st_result.out.val) :
            LET rec == st_result.out.val[i]
                hundredths == rec.win_pct.n * (100 \div rec.win_pct.d)
                gap == hundredths * rec.games_played
                           - rec.games_won * 10000
            IN  /\ C19_Counts(rec)
                /\ C19_InRange(rec.win_pct)
                /\ 100 % rec.win_pct.d = 0
                /\ rec.games_played > 0 =>
                       2 * Abs(gap) <= rec.games_played
                /\ rec.games_played = 0 => rec.win_pct.n = 0

\* club 1 wins one of three games (33.33), club 5 plays none
C19_Witness ==
    /\ StatsReturned
    /\ st_selected = None
    /\ st_result.out.val[1].games_played = 3
    /\ st_result.out.val[1].games_won = 1
    /\ st_result.out.val[1].win_pct = [n |-> 3333, d |-> 100]
    /\ st_result.out.val[3].games_played = 0
    /\ st_result.out.val[3].win_pct = [n |-> 0, d |-> 1]

\* the years the 'YY/YY' labels of a selection stand for
C20_Years(selected) ==
    {C16_Key(selected[i]) :
        i \in {j \in 1..Len(selected) : C16_WellFormed(selected[j])}}

\* C20: with a non-empty selected_seasons, games_played and games_won count
\* only the games whose season is the year of some selected label; a game of
\* any other year is never counted, whatever the labels are.
C20_SelectedGamesOnly ==
    (StatsDone /\ ~st_selected.none /\ st_selected.list # <<>>) =>
        /\ ~st_result.out.raised
        /\ LET chosen == SelectSeq(st_games,
                   LAMBDA g : g.season \in C20_Years(st_selected.list))
           IN  \A i \in 1..Len(st_result.out.val) :
                   LET rec == st_result.out.val[i]
                   IN  /\ rec.games_played = C19_Played(chosen, rec.club_id)
                       /\ rec.games_won = C19_Won(chosen, rec.club_id)

(***************************************************************************)
(* Claims about calculate_per_season_statistics (checked under SpecStats)  *)
(***************************************************************************)
PerSeasonDone == st_per_season.run

\* the club has no game in the season's year and no transfer of the season
C21_Quiet(club, season) ==
    /\ C16_WellFormed(season) =>
           C19_Played(SelectSeq(st_games,
               LAMBDA g : g.season = C16_Key(season)), club) = 0
    /\ \A i \in 1..Len(st_transfers) :
           st_transfers[i].transfer_season = season =>
               /\ st_transfers[i].to_club_id # club
               /\ st_transfers[i].from_club_id # club

\* C21: for every club the records are one per element of seasons, in the
\* same order; a season without games and transfers of the club has a record
\* with all-zero fields, and no season is omitted.
C21_RecordPerSeason ==
    (PerSeasonDone /\ ~st_selected.none) =>
        /\ ~st_per_season.out.raised
        /\ \A c \in 1..Len(StatClubIds) :
               LET recs == st_per_season.out.val[c]
                   seasons == st_selected.list
               IN  /\ Len(recs) = Len(seasons)
                   /\ \A i \in 1..Len(seasons) :
                          /\ recs[i].season = seasons[i]
                          /\ C21_Quiet(StatClubIds[c], seasons[i]) =>
                                 /\ recs[i].games_played = 0
                                 /\ recs[i].games_won = 0
                                 /\ recs[i].win_pct.n = 0
                                 /\ recs[i].money_spent = Zero
                                 /\ recs[i].money_earned = Zero

RECURSIVE C28_SumInt(_, _)
C28_SumInt(recs, field) ==
    IF recs = <<>> THEN 0
    ELSE (IF field = "games_played" THEN Head(recs).games_played
          ELSE Head(recs).games_won) + C28_SumInt(Tail(recs), field)

RECURSIVE C28_SumMoney(_, _)
C28_SumMoney(recs, field) ==
    IF recs = <<>> THEN Zero
    ELSE Add(IF field = "money_spent" THEN Head(recs).money_spent
             ELSE Head(recs).money_earned, C28_SumMoney(Tail(recs), field))

\* a non-empty list of distinct 'YY/YY' labels of distinct years
C28_Distinct(seasons) ==
    /\ seasons # <<>>
    /\ \A i \in 1..Len(seasons) : C16_WellFormed(seasons[i])
    /\ \A i \in 1..Len(seasons) : \A j \in 1..Len(seasons) :
           i # j => C16_Key(seasons[i]) # C16_Key(seasons[j])

\* C28: for a club and a non-empty list of distinct parsable labels of
\* distinct years, the per-season records add up, in games_played,
\* games_won, money_spent and money_earned, to the club's record of
\* calculate_team_statistics with that list selected.
C28_SeasonsAddUp ==
    (StatsDone /\ PerSeasonDone /\ ~st_selected.none
        /\ C28_Distinct(st_selected.list)) =>
        /\ ~st_result.out.raised /\ ~st_per_season.out.raised
        /\ \A c \in 1..Len(StatClubIds) :
               LET recs == st_per_season.out.val[c]
                   team == st_result.out.val[c]
               IN  /\ team.club_id = StatClubIds[c]
                   /\ C28_SumInt(recs, "games_played") = team.games_played
                   /\ C28_SumInt(recs, "games_won") = team.games_won
                   /\ C28_SumMoney(recs, "money_spent") = team.money_spent
                   /\ C28_SumMoney(recs, "money_earned") = team.money_earned

\* two seasons selected, club 1 plays in both and buys in one of them
C28_Witness ==
    /\ StatsDone /\ PerSeasonDone
    /\ st_selected = List(<<Season9900, Season1011>>)
    /\ st_per_season.out.val[1][1].games_played = 1
    /\ st_per_season.out.val[1][2].games_played = 2
    /\ st_per_season.out.val[1][1].money_spent = Float(1500)
    /\ st_result.out.val[1].games_played = 3
    /\ st_result.out.val[1].money_spent = Float(1500)

(***************************************************************************)
(* Claims about build_per_season_data (checked under SpecPerSeason)        *)
(***************************************************************************)
PerSeasonDataDone == psd.run

C22_Kinds == {"money_in", "money_out", "players_in", "players_out"}

C22_Matrix(mats, kind) ==
    CASE kind = "money_in" -> mats.money_in
      [] kind = "money_out" -> mats.money_out
      [] kind = "players_in" -> mats.players_in
      [] kind = "players_out" -> mats.players_out

C22_Build(kind, club_ids, te) ==
    CASE kind = "money_in" -> money_in_matrix(club_ids, te)
      [] kind = "money_out" -> money_out_matrix(club_ids, te)
      [] kind = "players_in" -> players_in_matrix(club_ids, te)
      [] kind = "players_out" -> players_out_matrix(club_ids, te)

C22_IsMoney(kind) == kind \in {"money_in", "money_out"}

\* the cell as an exact decimal, an absent row counting as 0
C22_Cell(mat, kind, r, c) ==
    IF r \notin Range(mat.index) \/ c \notin Range(mat.columns) THEN Zero
    ELSE IF C22_IsMoney(kind) THEN mat.cell[<<r, c>>]
    ELSE Float(mat.cell[<<r, c>>])

\* the sum of cell (r, c) over the per-season matrices of the listed seasons
RECURSIVE C22_Sum(_, _, _, _)
C22_Sum(seasons, kind, r, c) ==
    IF seasons = <<>> THEN Zero
    ELSE Add(C22_Cell(C22_Matrix(psd.per_season[Head(seasons)], kind),
                      kind, r, c),
             C22_Sum(Tail(seasons), kind, r, c))

\* the per-season matrices of the seasons at positions S add up to the
\* matrix built from te
C22_AddsUp(S, te) ==
    LET chosen == SelectSeq(psd.all_seasons,
                      LAMBDA v : \E i \in S : psd.all_seasons[i] = v)
    IN  \A kind \in C22_Kinds :
            LET direct == C22_Build(kind, psd_club_ids, te)
            IN  \A r \in Range(AlphaOrder) : \A c \in Range(psd_club_ids) :
                    C22_Sum(chosen, kind, r, c) = C22_Cell(direct, kind, r, c)

\* the first half of C22: every subset of the season list
C22_Subsets ==
    PerSeasonDataDone =>
        \A S \in SUBSET (1..Len(psd.all_seasons)) :
            C22_AddsUp(S, SelectSeq(psd_transfers,
                LAMBDA t : \E i \in S : t.transfer_season = psd.all_seasons[i]))

\* C22: for each of the four kinds and every subset S of the season list the
\* per-season matrices of S add up cell by cell to the builder's matrix of
\* the ledger restricted to S, and those of all seasons add up to the
\* matrix of the whole ledger.
C22_SeasonsAddUp ==
    PerSeasonDataDone =>
        /\ C22_Subsets
        /\ C22_AddsUp(1..Len(psd.all_seasons), psd_transfers)

(***************************************************************************)
(* Claims about build_top_clubs (checked under SpecTop)                    *)
(***************************************************************************)
TopDone == top_result.run

\* appearances of an id as home or away club
C29_Count(id) ==
    Len(SelectSeq(top_games, LAMBDA g : g.home_club_id = id))
    + Len(SelectSeq(top_games, LAMBDA g : g.away_club_id = id))

C29_Ids ==
    ({top_games[i].home_club_id : i \in 1..Len(top_games)}
        \cup {top_games[i].away_club_id : i \in 1..Len(top_games)}) \ {NullId}

C29_Known == {top_clubs[i].club_id : i \in 1..Len(top_clubs)}

\* the ids that appear strictly more often than id, and at least as often
C29_Above(id) == {o \in C29_Ids : C29_Count(o) > C29_Count(id)}

C29_AtLeast(id) == {o \in C29_Ids : C29_Count(o) >= C29_Count(id)}

\* C29: the list has no duplicate and at most top_n ids; each is a club_id
\* of the club table and among the top_n ids by appearances; the list is in
\* non-increasing order of appearances; and an id of the top_n that is not
\* in the club table is removed without a lower-ranked club taking its place.
C29_TopClubs ==
    TopDone =>
        LET res == top_result.val
        IN  /\ Len(res) <= top_n
            /\ \A i, j \in 1..Len(res) : i # j => res[i] # res[j]
            /\ \A i \in 1..Len(res) :
                   /\ res[i] \in C29_Known \cap C29_Ids
                   /\ Cardinality(C29_Above(res[i])) < top_n
            /\ \A i, j \in 1..Len(res) :
                   i < j => C29_Count(res[i]) >= C29_Count(res[j])
            /\ \A id \in C29_Known \cap C29_Ids :
                   Cardinality(C29_AtLeast(id)) <= top_n => id \in Range(res)
            /\ Len(res) + Cardinality({id \in C29_Ids \ C29_Known :
                                  Cardinality(C29_AtLeast(id)) <= top_n})
                   <= top_n

\* club 9 is the most frequent id and unknown: it is dropped, and club 3,
\* ranked below the first two, does not move up
C29_Witness ==
    /\ TopDone
    /\ top_n = 2
    /\ top_clubs = <<[club_id |-> 1], [club_id |-> 2], [club_id |-> 3]>>
    /\ top_games = <<Game(9, 1, 0, 2, 2010), Game(9, 1, 0, 2, 2010),
                     Game(3, 9, 1, 0, 1999)>>
    /\ top_result.val = <<1>>

(***************************************************************************)
(* build_dashboard as a state machine: the stages in the order of the code *)
(***************************************************************************)
TableNames == {"clubs", "competitions", "transfers", "games"}

\* load_data: the table of the file, or None when reading it fails
load_data(file, content) ==
    IF file \in pl_unreadable THEN None ELSE List(content)

\* mutant: the games table is not among the required tables
RequiredTableMissingButGames(c, k, t, g) == c.none \/ k.none \/ t.none

\* clubs is None or competitions is None or transfers is None or games is None
RequiredTableMissing(c, k, t, g) == c.none \/ k.none \/ t.none \/ g.none

TOP_N_CLUBS == 50

\* the games file of the pipeline runs
PipelineGames == <<Game(1, 2, 1, 0, 2010), Game(9, 1, 0, 2, 2010)>>

\* a call of sort_seasons_chronologically with the given positional
\* arguments: the function has one parameter
call_sort_seasons_chronologically(args) ==
    IF Len(args) # 1 THEN Raised
    ELSE sort_seasons_chronologically(args[1])

\* transfers_enriched['transfer_season'].dropna().unique().tolist()
SeasonColumn(te) == Unique([i \in 1..Len(te) |-> te[i].transfer_season])

Init ==
    /\ pc = "start"
    /\ pl_unreadable \in SUBSET TableNames
    /\ clubs \in IF "clubs" \in pl_unreadable THEN {<<>>}
                 ELSE SeqsUpTo(ClubRows, MaxClubs)
    /\ competitions \in IF "competitions" \in pl_unreadable THEN {<<>>}
                        ELSE SeqsUpTo(CompetitionRows, MaxComps)
    /\ transfers \in IF "transfers" \in pl_unreadable THEN {<<>>}
                     ELSE SeqsUpTo(TransferRows, MaxTransfers)
    /\ pl_games = IF "games" \in pl_unreadable THEN <<>> ELSE PipelineGames
    /\ clubs_enriched = <<>>
    /\ club_country_map = <<>>
    /\ transfers_enriched = <<>>
    /\ pl_top_club_ids = <<>>
    /\ pl_error = "none"
    /\ FeeIdle /\ ClassifyIdle /\ MatrixIdle
    /\ RowsIdle /\ SeasonsIdle /\ FilterIdle /\ StatsIdle
    /\ PerSeasonIdle
    /\ TopIdle
    /\ FrameIdle
    /\ ScaleIdle

varsOthers == <<varsFee, varsClassify, varsMatrix, varsRows, varsSeasons,
                varsFilter, varsStats, varsPerSeason, varsTop, varsFrame,
                varsScale>>

LoadData ==
    /\ pc = "start"
    /\ IF RequiredTableMissing(load_data("clubs", clubs),
                               load_data("competitions", competitions),
                               load_data("transfers", transfers),
                               load_data("games", pl_games))
       THEN pc' = "fatal" /\ pl_error' = "RuntimeError"
       ELSE pc' = "loaded" /\ pl_error' = pl_error
    /\ UNCHANGED <<clubs, competitions, transfers, clubs_enriched,
                   club_country_map, transfers_enriched, pl_games,
                   pl_unreadable, pl_top_club_ids, varsOthers>>

PreprocessClubs ==
    /\ pc = "loaded"
    /\ clubs_enriched' = preprocess_clubs(clubs, competitions)
    /\ pc' = "preprocessed"
    /\ UNCHANGED <<clubs, competitions, transfers, club_country_map,
                   transfers_enriched, pl_games, pl_unreadable,
                   pl_top_club_ids, pl_error, varsOthers>>

BuildMaps ==
    /\ pc = "preprocessed"
    /\ club_country_map' = DictZip(clubs_enriched, "club_country")
    /\ pc' = "mapped"
    /\ UNCHANGED <<clubs, competitions, transfers, clubs_enriched,
                   transfers_enriched, pl_games, pl_unreadable,
                   pl_top_club_ids, pl_error, varsOthers>>

PickTopClubs ==
    /\ pc = "mapped"
    /\ \E ids \in build_top_clubs(pl_games, clubs_enriched, TOP_N_CLUBS) :
          pl_top_club_ids' = ids
    /\ pc' = "ranked"
    /\ UNCHANGED <<clubs, competitions, transfers, clubs_enriched,
                   club_country_map, transfers_enriched, pl_games,
                   pl_unreadable, pl_error, varsOthers>>

BuildTransferEnriched ==
    /\ pc = "ranked"
    /\ transfers_enriched' = build_transfer_enriched(transfers, club_country_map)
    /\ pc' = "enriched"
    /\ UNCHANGED <<clubs, competitions, transfers, clubs_enriched,
                   club_country_map, pl_games, pl_unreadable,
                   pl_top_club_ids, pl_error, varsOthers>>

\* all_seasons = sort_seasons_chronologically(<season column>, '10/11')
SortAllSeasons ==
    /\ pc = "enriched"
    /\ IF call_sort_seasons_chronologically(
              <<SeasonColumn(transfers_enriched), "10/11">>).raised
       THEN pc' = "fatal" /\ pl_error' = "TypeError"
       ELSE pc' = "sorted" /\ pl_error' = pl_error
    /\ UNCHANGED <<clubs, competitions, transfers, clubs_enriched,
                   club_country_map, transfers_enriched, pl_games,
                   pl_unreadable, pl_top_club_ids, varsOthers>>

Next ==
    \/ LoadData
    \/ PreprocessClubs
    \/ BuildMaps
    \/ PickTopClubs
    \/ BuildTransferEnriched
    \/ SortAllSeasons

Spec == Init /\ [][Next]_vars

(***************************************************************************)
(* Claims about build_dashboard                                            *)
(***************************************************************************)
\* no transform, top-club choice or enrichment has produced anything
NothingBuilt ==
    /\ clubs_enriched = <<>>
    /\ club_country_map = <<>>
    /\ pl_top_club_ids = <<>>
    /\ transfers_enriched = <<>>

\* C23: when one of the four required tables cannot be loaded, build_dashboard
\* goes from its start straight to a fatal RuntimeError: it reaches no later
\* stage and no transform has produced anything.
C23_LoadFailureIsFatal ==
    pl_unreadable # {} =>
        /\ pc \in {"start", "fatal"}
        /\ pc = "fatal" => pl_error = "RuntimeError"
        /\ NothingBuilt

C23_Witness ==
    /\ pl_unreadable = {"games"}
    /\ pc = "fatal"
    /\ pl_error = "RuntimeError"

\* C24 as claimed: when all four tables load, build_dashboard ends with no
\* fatal error.
C24_NoFatalError == pl_unreadable = {} => pl_error = "none"

PreprocessDone ==
    \/ pc \in {"preprocessed", "mapped", "ranked", "enriched"}
    \/ pc = "fatal" /\ pl_error = "TypeError"

MapDone ==
    \/ pc \in {"mapped", "ranked", "enriched"}
    \/ pc = "fatal" /\ pl_error = "TypeError"

\* the country of the competition a club row names, 'Unknown' without one
C25_Country(club) ==
    LET hits == {k \in DOMAIN competitions :
                    competitions[k].competition_id = club.domestic_competition_id}
    IN  IF hits = {} THEN "Unknown"
        ELSE LET c == competitions[CHOOSE k \in hits : TRUE].country_name
             IN  IF c = NullCountry THEN "Unknown" ELSE c

\* every club row gave one output row, carrying the country of its competition
C25_RowPerClub ==
    PreprocessDone =>
        /\ Len(clubs_enriched) = Len(clubs)
        /\ \A i \in 1..Len(clubs) :
              /\ clubs_enriched[i].club_id = clubs[i].club_id
              /\ clubs_enriched[i].club_country = C25_Country(clubs[i])

\* C25: after preprocess_clubs every row of the club table has exactly one
\* output row, each club_id has exactly one club_country in the output (that
\* of its competition, or 'Unknown'), and club_country_map gives every
\* club_id that one country.
C25_OneCountryPerClub ==
    /\ C25_RowPerClub
    /\ PreprocessDone =>
          \A i, j \in 1..Len(clubs_enriched) :
              clubs_enriched[i].club_id = clubs_enriched[j].club_id
                  => clubs_enriched[i].club_country = clubs_enriched[j].club_country
    /\ MapDone =>
          \A i \in 1..Len(clubs) :
              /\ clubs[i].club_id \in DOMAIN club_country_map
              /\ club_country_map[clubs[i].club_id] = C25_Country(clubs[i])

\* the clubs of a free-text report, each with the country the report gives
C26_Report ==
    {[name |-> <<"C", "a", "s", "i", "n", "o", " ", "C", "l", "u", "b">>,
      country |-> "France"],
     [name |-> <<"F", "C", " ", "R", "e", "t", "i", "r", "e", "d">>,
      country |-> "Scotland"]}

\* the id/name pairs of the transfer ledger
C26_Candidates ==
    {[club_id |-> transfers[i].from_club_id, name |-> transfers[i].from_club_name] :
        i \in 1..Len(transfers)}
    \cup
    {[club_id |-> transfers[i].to_club_id, name |-> transfers[i].to_club_name] :
        i \in 1..Len(transfers)}

\* the report clubs matched by canonicalized name to a ledger id
C26_Reconciled ==
    {[club_id |-> c.club_id, club_country |-> r.country] :
        <<c, r>> \in {<<c, r>> \in C26_Candidates \X C26_Report :
                        /\ c.club_id # NullId
                        /\ c.name.isstr
                        /\ Lower(Strip(c.name.chars)) = Lower(Strip(r.name))}}

\* C26 as claimed: the lookup holds every reconciled additional-source id; an
\* id that is also in the primary table keeps the country of its first
\* primary row, an id of the additional source alone has that source's
\* country.
C26_MergedLookup ==
    MapDone =>
        \A a \in C26_Reconciled :
            LET primary == {i \in 1..Len(clubs_enriched) :
                               clubs_enriched[i].club_id = a.club_id}
                first == CHOOSE i \in primary : \A j \in primary : i <= j
            IN  /\ a.club_id \in DOMAIN club_country_map
                /\ club_country_map[a.club_id] =
                     IF primary # {} THEN clubs_enriched[first].club_country
                     ELSE a.club_country

(***************************************************************************)
(* The filter and aggregation operations called again and again on the     *)
(* same objects.                                                           *)
(*                                                                         *)
(* fr_heap holds the objects by name: the enriched ledger, the games       *)
(* table, a matrix, and "pct", the frame column_percentage_matrix fills.   *)
(* A call reads its arguments from the heap and leaves the heap as its     *)
(* stores leave it.                                                        *)
(***************************************************************************)
MaxFrameLedger == 2   \* rows of the ledger the operations are repeated on
MaxFrameGames == 1    \* rows of the games table the operations are repeated on

FrameLedgerRows ==
    {t \in SeasonLedgerRows :
        /\ t.player_id = 7
        /\ t.transfer_season # Missing
        /\ \/ t.from_country = "France" /\ t.fee_eur = Float(3)
           \/ t.to_country = "France" /\ t.fee_eur = Float(1500)}

FrameGameRows == {Game(1, 2, 1, 0, 2010), Game(2, 1, 0, 0, 1999)}

FrameClubIds == <<1, 2>>

FrameSelections == {None, List(<<Season1011>>), List(<<Season9900, Season1011>>)}

\* mutant: pct = matrix, the frame is filled in place
PctObjectInPlace(matrix) == matrix

\* pct = matrix.astype(float).copy(): the object the percentages are stored in
PctObject(matrix) == "pct"

\* column_percentage_matrix on the object named `matrix`: an empty matrix is
\* returned itself, otherwise the columns of pct are overwritten one by one
column_percentage_matrix_call(heap, matrix) ==
    IF heap[matrix].index = <<>> \/ heap[matrix].columns = <<>>
    THEN [heap |-> heap, result |-> heap[matrix]]
    ELSE LET pct == PctObject(matrix)
             stored == [heap EXCEPT ![pct] = column_percentage_matrix(heap[matrix])]
         IN  [heap |-> stored, result |-> stored[pct]]

\* the four matrix builders on the ledger object
matrix_builder_call(heap, builder) ==
    LET te == heap["transfers_enriched"]
    IN  CASE builder = "money_in" -> money_in_matrix(FrameClubIds, te)
          [] builder = "money_out" -> money_out_matrix(FrameClubIds, te)
          [] builder = "players_in" -> players_in_matrix(FrameClubIds, te)
          [] builder = "players_out" -> players_out_matrix(FrameClubIds, te)

\* the result of an operation that stores nothing in its arguments
FrameResult(op, arg, heap) ==
    LET te == heap["transfers_enriched"]
        games == heap["games"]
    IN  CASE op = "filter_transfers_by_seasons" ->
                filter_transfers_by_seasons(te, arg)
          [] op = "matrix_builder" -> matrix_builder_call(heap, arg)
          [] op = "build_per_season_data" ->
                build_per_season_data(FrameClubIds, te, AllSeasons(te))
          [] op = "calculate_team_statistics" ->
                calculate_team_statistics(FrameClubIds, games, te, arg)
          [] op = "calculate_per_season_statistics" ->
                calculate_per_season_statistics(1, games, te, arg)

\* the heap and the result a call leaves
FrameCall(op, arg, heap) ==
    IF op = "column_percentage_matrix"
    THEN column_percentage_matrix_call(heap, "matrix")
    ELSE [heap |-> heap, result |-> FrameResult(op, arg, heap)]

InitFrame ==
    /\ \E te \in SeqsUpTo(FrameLedgerRows, MaxFrameLedger),
          games \in SeqsUpTo(FrameGameRows, MaxFrameGames),
          kind \in {"money_in", "players_out"} :
          fr_heap = [transfers_enriched |-> te,
                     games |-> games,
                     matrix |-> IF kind = "money_in"
                                THEN Frame(money_in_matrix(FrameClubIds, te), "float64")
                                ELSE Frame(players_out_matrix(FrameClubIds, te), "int64"),
                     pct |-> NotRun]
    /\ fr_initial = fr_heap
    /\ fr_call = NotRun
    /\ FeeIdle /\ ClassifyIdle /\ PipelineIdle /\ MatrixIdle
    /\ RowsIdle /\ SeasonsIdle /\ FilterIdle /\ StatsIdle
    /\ PerSeasonIdle /\ TopIdle
    /\ ScaleIdle

\* what fr_call records of a call
CallRecord(op, arg, out) ==
    [run |-> TRUE, op |-> op, arg |-> arg, result |-> out.result]

varsNotFrame == <<varsFee, varsClassify, varsPipeline, varsMatrix, varsRows,
                  varsSeasons, varsFilter, varsStats, varsPerSeason, varsTop,
                  varsScale>>

CallFilter ==
    \E seasons \in FrameSelections :
        LET out == FrameCall("filter_transfers_by_seasons", seasons, fr_heap)
        IN  /\ fr_heap' = out.heap
            /\ fr_call' = CallRecord("filter_transfers_by_seasons", seasons, out)
            /\ UNCHANGED <<fr_initial, varsNotFrame>>

CallMatrixBuilder ==
    \E builder \in {"money_in", "money_out", "players_in", "players_out"} :
        LET out == FrameCall("matrix_builder", builder, fr_heap)
        IN  /\ fr_heap' = out.heap
            /\ fr_call' = CallRecord("matrix_builder", builder, out)
            /\ UNCHANGED <<fr_initial, varsNotFrame>>

CallColumnPercentage ==
    LET out == FrameCall("column_percentage_matrix", "matrix", fr_heap)
    IN  /\ fr_heap' = out.heap
        /\ fr_call' = CallRecord("column_percentage_matrix", "matrix", out)
        /\ UNCHANGED <<fr_initial, varsNotFrame>>

CallPerSeasonData ==
    LET out == FrameCall("build_per_season_data", "all_seasons", fr_heap)
    IN  /\ fr_heap' = out.heap
        /\ fr_call' = CallRecord("build_per_season_data", "all_seasons", out)
        /\ UNCHANGED <<fr_initial, varsNotFrame>>

CallTeamStatistics ==
    \E seasons \in FrameSelections :
        LET out == FrameCall("calculate_team_statistics", seasons, fr_heap)
        IN  /\ fr_heap' = out.heap
            /\ fr_call' = CallRecord("calculate_team_statistics", seasons, out)
            /\ UNCHANGED <<fr_initial, varsNotFrame>>

CallPerSeasonStatistics ==
    \E seasons \in {<<Season1011>>, <<Season9900, Season1011>>} :
        LET out == FrameCall("calculate_per_season_statistics", seasons, fr_heap)
        IN  /\ fr_heap' = out.heap
            /\ fr_call' = CallRecord("calculate_per_season_statistics", seasons, out)
            /\ UNCHANGED <<fr_initial, varsNotFrame>>

NextFrame ==
    \/ CallFilter
    \/ CallMatrixBuilder
    \/ CallColumnPercentage
    \/ CallPerSeasonData
    \/ CallTeamStatistics
    \/ CallPerSeasonStatistics

SpecFrame == InitFrame /\ [][NextFrame]_vars

\* the objects the operations are given
FrameInputs == {"transfers_enriched", "games", "matrix"}

\* C27: whatever calls of filter_transfers_by_seasons, the matrix builders,
\* column_percentage_matrix, build_per_season_data, calculate_team_statistics
\* and calculate_per_season_statistics were made, the ledger, the games table
\* and the matrix are what they were before the first call, and the last call
\* returned what the same call returns on the objects as they were at first.
C27_InputsUnchanged ==
    /\ \A object \in FrameInputs : fr_heap[object] = fr_initial[object]
    /\ fr_call.run =>
          fr_call.result = FrameCall(fr_call.op, fr_call.arg, fr_initial).result

\* C27 witness: column_percentage_matrix has filled pct with percentages of a
\* matrix that has a non-zero column, and the matrix still has its amounts
C27_Witness ==
    /\ fr_call.run
    /\ fr_call.op = "column_percentage_matrix"
    /\ fr_heap["pct"] = fr_call.result
    /\ fr_call.result # fr_heap["matrix"]
    /\ fr_heap["matrix"].index # <<>>
    /\ fr_heap["matrix"] = fr_initial["matrix"]

(***************************************************************************)
(* The heatmap layers and the scale selector                               *)
(*                                                                         *)
(* A heatmap has up to three layers (linear, log, percentage), each a rect *)
(* renderer with its colour bar; a layer that was not built is None.       *)
(***************************************************************************)
NoObject == [exists |-> FALSE, visible |-> FALSE]

Object(visible) == [exists |-> TRUE, visible |-> visible]

RECURSIVE MinOf(_)
MinOf(values) ==
    IF Len(values) = 1 THEN values[1]
    ELSE LET m == MinOf(Tail(values))
         IN  IF values[1] < m THEN values[1] ELSE m

RECURSIVE MaxOf(_)
MaxOf(values) ==
    IF Len(values) = 1 THEN values[1]
    ELSE LET m == MaxOf(Tail(values))
         IN  IF values[1] > m THEN values[1] ELSE m

\* log_mapper is not None: some value is positive and the least positive
\* value is below vmax
HasLogMapper(values) ==
    LET vmin == MinOf(values)
        vmax == IF MaxOf(values) <= vmin THEN vmin + 1 ELSE MaxOf(values)
        positive == SelectSeq(values, LAMBDA v : v > 0)
    IN  positive # <<>> /\ MinOf(positive) < vmax

\* the renderers and colour bars make_heatmap returns for a matrix with the
\* given cell values, with or without a percentage matrix
make_heatmap(values, has_pct_matrix) ==
    IF values = <<>>
    THEN [lin_rect |-> NoObject, log_rect |-> NoObject,
          lin_color_bar |-> NoObject, log_color_bar |-> NoObject,
          pct_rect |-> NoObject, pct_color_bar |-> NoObject]
    ELSE [lin_rect |-> Object(TRUE),
          log_rect |-> IF HasLogMapper(values) THEN Object(FALSE) ELSE NoObject,
          lin_color_bar |-> Object(TRUE),
          log_color_bar |-> IF HasLogMapper(values) THEN Object(FALSE) ELSE NoObject,
          pct_rect |-> IF has_pct_matrix THEN Object(FALSE) ELSE NoObject,
          pct_color_bar |-> IF has_pct_matrix THEN Object(FALSE) ELSE NoObject]

\* function setVisible(obj, v) { if (obj) { obj.visible = v; } }
setVisible(obj, v) == IF obj.exists THEN [obj EXCEPT !.visible = v] ELSE obj

\* mutant: the branch of Linear and Log leaves the percentage layers alone
scale_callback_keeps_percentage(mode, plots) ==
    [i \in 1..Len(plots) |->
        LET plot == plots[i]
            hasLog == plot.log_rect.exists /\ plot.log_color_bar.exists
            on == IF mode = "Percentage" THEN "pct"
                  ELSE IF mode = "Log" /\ hasLog THEN "log" ELSE "lin"
        IN  [lin_rect |-> setVisible(plot.lin_rect, on = "lin"),
             lin_color_bar |-> setVisible(plot.lin_color_bar, on = "lin"),
             log_rect |-> setVisible(plot.log_rect, on = "log"),
             log_color_bar |-> setVisible(plot.log_color_bar, on = "log"),
             pct_rect |-> IF mode = "Percentage"
                          THEN setVisible(plot.pct_rect, TRUE) ELSE plot.pct_rect,
             pct_color_bar |-> IF mode = "Percentage"
                               THEN setVisible(plot.pct_color_bar, TRUE)
                               ELSE plot.pct_color_bar]]

\* the CustomJS code of scale_callback run with scale_select.value = mode
scale_callback(mode, plots) ==
    [i \in 1..Len(plots) |->
        LET plot == plots[i]
            useLog == mode = "Log"
            hasLog == plot.log_rect.exists /\ plot.log_color_bar.exists
        IN  IF mode = "Percentage"
            THEN [lin_rect |-> setVisible(plot.lin_rect, FALSE),
                  lin_color_bar |-> setVisible(plot.lin_color_bar, FALSE),
                  log_rect |-> setVisible(plot.log_rect, FALSE),
                  log_color_bar |-> setVisible(plot.log_color_bar, FALSE),
                  pct_rect |-> setVisible(plot.pct_rect, TRUE),
                  pct_color_bar |-> setVisible(plot.pct_color_bar, TRUE)]
            ELSE IF useLog /\ hasLog
            THEN [lin_rect |-> setVisible(plot.lin_rect, FALSE),
                  lin_color_bar |-> setVisible(plot.lin_color_bar, FALSE),
                  log_rect |-> setVisible(plot.log_rect, TRUE),
                  log_color_bar |-> setVisible(plot.log_color_bar, TRUE),
                  pct_rect |-> setVisible(plot.pct_rect, FALSE),
                  pct_color_bar |-> setVisible(plot.pct_color_bar, FALSE)]
            ELSE [lin_rect |-> setVisible(plot.lin_rect, TRUE),
                  lin_color_bar |-> setVisible(plot.lin_color_bar, TRUE),
                  log_rect |-> setVisible(plot.log_rect, FALSE),
                  log_color_bar |-> setVisible(plot.log_color_bar, FALSE),
                  pct_rect |-> setVisible(plot.pct_rect, FALSE),
                  pct_color_bar |-> setVisible(plot.pct_color_bar, FALSE)]]

\* options=["Linear", "Log", "Percentage"]
ScaleOptions == {"Linear", "Log", "Percentage"}

\* the heatmaps of the dashboard: money_in, money_out, players_in, players_out
NumPlots == 4

\* the cell values of the matrices the heatmaps are made of
HeatmapValues == {<<>>, <<0>>, <<0, 5>>, <<5, 5>>, <<3, 5>>}

InitScale ==
    /\ sc_value = "Linear"
    /\ \E values \in [1..NumPlots -> HeatmapValues],
          has_pct_matrix \in [1..NumPlots -> BOOLEAN] :
          sc_plots = [i \in 1..NumPlots |->
                         make_heatmap(values[i], has_pct_matrix[i])]
    /\ FeeIdle /\ ClassifyIdle /\ PipelineIdle /\ MatrixIdle
    /\ RowsIdle /\ SeasonsIdle /\ FilterIdle /\ StatsIdle
    /\ PerSeasonIdle /\ TopIdle /\ FrameIdle

\* the user picks another option: js_on_change('value') runs scale_callback
SelectScale ==
    \E mode \in ScaleOptions \ {sc_value} :
        /\ sc_value' = mode
        /\ sc_plots' = scale_callback(mode, sc_plots)
        /\ UNCHANGED <<varsFee, varsClassify, varsPipeline, varsMatrix,
                       varsRows, varsSeasons, varsFilter, varsStats,
                       varsPerSeason, varsTop, varsFrame>>

NextScale == SelectScale

SpecScale == InitScale /\ [][NextScale]_vars

\* the layers of a heatmap that are drawn, and the colour bars that are shown
C30_VisibleLayers(plot) ==
    {layer \in {"lin", "log", "pct"} :
        CASE layer = "lin" -> plot.lin_rect.visible
          [] layer = "log" -> plot.log_rect.visible
          [] layer = "pct" -> plot.pct_rect.visible}

C30_VisibleBars(plot) ==
    {layer \in {"lin", "log", "pct"} :
        CASE layer = "lin" -> plot.lin_color_bar.visible
          [] layer = "log" -> plot.log_color_bar.visible
          [] layer = "pct" -> plot.pct_color_bar.visible}

\* the layer the selected scale stands for on a heatmap
C30_Layer(plot) ==
    IF sc_value = "Percentage" THEN "pct"
    ELSE IF sc_value = "Log" /\ plot.log_rect.exists THEN "log"
    ELSE "lin"

\* C30: on every heatmap of a non-empty matrix with a percentage layer, at
\* the start and after any selections of the scale, exactly the layer of the
\* selected scale is visible, with exactly its colour bar: the percentage
\* layer for Percentage, the log layer for Log when the heatmap has one and
\* the linear layer otherwise, the linear layer for Linear.
C30_OneLayerVisible ==
    \A i \in 1..Len(sc_plots) :
        sc_plots[i].lin_rect.exists /\ sc_plots[i].pct_rect.exists =>
            /\ C30_VisibleLayers(sc_plots[i]) = {C30_Layer(sc_plots[i])}
            /\ C30_VisibleBars(sc_plots[i]) = {C30_Layer(sc_plots[i])}

\* C30 witness: Log is selected; a heatmap without a log layer shows its linear
\* layer and one with a log layer shows the log layer, both have a percentage
\* layer
C30_Witness ==
    /\ sc_value = "Log"
    /\ \E i, j \in 1..Len(sc_plots) :
          /\ sc_plots[i].pct_rect.exists /\ sc_plots[j].pct_rect.exists
          /\ ~sc_plots[i].log_rect.exists /\ sc_plots[i].lin_rect.visible
          /\ sc_plots[j].log_rect.visible /\ ~sc_plots[j].lin_rect.visible

====
